---- MODULE Spec2Model ----
(***************************************************************************)
(* Model of the floor plan tools:                                           *)
(*   - the interactive floor plan editor (src/floor_plan_editor.py), with   *)
(*     its export operations and its 3D viewer,                             *)
(*   - the desktop front end (src/ui_desktop.py),                           *)
(*   - the converter they share (src/floor_plan_to_3d.py).                  *)
(*                                                                         *)
(* The editor is a Tk event loop: one handler runs to completion per       *)
(* event.  The state is the FloorPlanEditor object's fields together with   *)
(* the Tk canvas (the display list the handlers hit-test against).          *)
(*                                                                         *)
(* Conventions                                                             *)
(*  - Entity records are the tuples the code stores, field for field.       *)
(*  - Python's None is modelled as 0 for the two selection indices, and     *)
(*    list indices are 1-based here (Python index i is i+1 below).          *)
(*  - Canvas geometry is kept in half pixels (pixel value times 2) so that  *)
(*    the code's width/2 and handle_size/2 stay integral.                   *)
(*  - A handler that raises (Tk reports the exception and the event loop    *)
(*    goes on) keeps the assignments made before the raise and skips the    *)
(*    rest of the handler.                                                  *)
(***************************************************************************)
EXTENDS Integers, Sequences, FiniteSets, TLC

VARIABLES current_tool, drawing, start_x, start_y,
          walls, rooms, doors, windows, staircases, furniture,
          selected_door, selected_furniture, dragging_furniture,
          selected_furniture_type,
          canvas, nextId, temp, mouse, created, resize_log,
          shown,
          floor_plan_path, btn_generate, wall_height_var, wall_thickness_var,
          converter, threads, after_queue, model_canvas, handed, received,
          job, scene

\* the editor object and its canvas
editorVars == <<current_tool, drawing, start_x, start_y,
                walls, rooms, doors, windows, staircases, furniture,
                selected_door, selected_furniture, dragging_furniture,
                selected_furniture_type,
                canvas, nextId, temp, mouse, created, resize_log>>

\* what the last export operation of the editor presented to the user
exportVars == <<shown>>

\* the desktop front end: its fields, its worker threads and the callbacks
\* they scheduled on the main loop
desktopVars == <<floor_plan_path, btn_generate, wall_height_var,
                 wall_thickness_var, converter, threads, after_queue,
                 model_canvas, handed, received>>

\* one run of the 3D stage: what it is given and what it builds
viewerVars == <<job, scene>>

vars == <<editorVars, exportVars, desktopVars, viewerVars>>

\* History variables (not program state):
\*   created     number of entity records created so far
\*   resize_log  the <<drag delta, stored width>> pairs of the drag events of
\*               the door resize gesture in progress
\*   handed      the snapshots the worker threads scheduled for the main loop
\*   received    the snapshots the main loop passed to _create_3d_visualization

(***************************************************************************)
(* Bounds of the model                                                     *)
(***************************************************************************)
\* entity records created before the editor stops accepting creating gestures
MaxEntities == 2

\* pointer positions the events are drawn from (canvas pixels)
Points == { <<40, 40>>, <<45, 44>>, <<70, 70>>, <<110, 70>> }

\* pointer positions of the door resizing runs: a door placed at one of the
\* first two has a handle under the other
DoorPoints == { <<40, 40>>, <<60, 40>>, <<80, 70>> }

\* furniture types offered by the model's library panel
UsedTypes == {"chair"}

\* pointer positions of the export runs
ExportPoints == { <<40, 40>>, <<70, 70>> }

\* answers of the save dialog: cancelled, or a file name
SavePaths == {"", "plan.png"}

\* walls in the list a run of the 3D stage is given
MaxWalls == 2

\* pixel segments detect_walls may return: horizontal, vertical, oblique,
\* right to left, of length 0, and the wall (50,50)-(950,50)
DetectedPool == { <<200, 200, 600, 200>>, <<200, 200, 200, 600>>,
                  <<200, 200, 500, 600>>, <<600, 400, 200, 400>>,
                  <<400, 400, 400, 400>>, <<50, 50, 950, 50>> }

\* door anchors of the runs (pixels): on the horizontal wall, on the oblique
\* wall, left of the vertical wall, beyond the end of the horizontal wall
DoorAnchors == { <<400, 200>>, <<320, 360>>, <<100, 300>>, <<700, 250>> }

\* window anchors of the runs (pixels)
WindowAnchors == { <<400, 440>>, <<240, 100>> }

\* image shapes (height, width) of the command line runs
ImageShapes == { <<800, 1000>>, <<700, 1000>>, <<1200, 1000>> }

\* wall heights and thicknesses of the command line runs, in metres
WallHeights == { <<3, 1>>, <<5, 2>> }
WallThicknesses == { <<1, 5>>, <<1, 2>> }

(***************************************************************************)
(* Program constants                                                       *)
(***************************************************************************)
grid_size == 20
show_measurements == TRUE
None == 0

Tools == {"wall", "room", "door", "window", "staircase", "erase"}

furniture_types ==
  [t \in {"sofa", "dining_table", "bed", "chair", "desk", "tv", "refrigerator",
          "cabinet", "bookshelf", "table", "wardrobe", "bathtub"} |->
     CASE t = "sofa"         -> [width |-> 80, height |-> 40]
       [] t = "dining_table" -> [width |-> 60, height |-> 60]
       [] t = "bed"          -> [width |-> 60, height |-> 80]
       [] t = "chair"        -> [width |-> 25, height |-> 25]
       [] t = "desk"         -> [width |-> 50, height |-> 30]
       [] t = "tv"           -> [width |-> 40, height |-> 25]
       [] t = "refrigerator" -> [width |-> 30, height |-> 50]
       [] t = "cabinet"      -> [width |-> 40, height |-> 30]
       [] t = "bookshelf"    -> [width |-> 30, height |-> 50]
       [] t = "table"        -> [width |-> 40, height |-> 40]
       [] t = "wardrobe"     -> [width |-> 50, height |-> 60]
       [] t = "bathtub"      -> [width |-> 50, height |-> 30]]

(***************************************************************************)
(* Arithmetic helpers                                                      *)
(***************************************************************************)
Abs(v) == IF v < 0 THEN 0 - v ELSE v
Min(a, b) == IF a < b THEN a ELSE b
Max(a, b) == IF a > b THEN a ELSE b

\* the next grid line above the coordinate
SnapUp(v) == ((v \div grid_size) + 1) * grid_size

\* round(v / grid_size) * grid_size with Python's round (ties go to the even
\* quotient)
Snap(v) ==
  LET q == v \div grid_size
      r == v % grid_size
  IN  IF 2 * r < grid_size THEN q * grid_size
      ELSE IF 2 * r > grid_size THEN (q + 1) * grid_size
      ELSE IF q % 2 = 0 THEN q * grid_size ELSE (q + 1) * grid_size

RemoveAt(s, i) == SubSeq(s, 1, i - 1) \o SubSeq(s, i + 1, Len(s))

\* index of the first element of s satisfying P, 0 when there is none
\* (the code's "for i, rec in enumerate(list): if ...: ...; break")
FirstIdx(s, P(_)) ==
  IF \E i \in 1..Len(s) : P(s[i])
  THEN CHOOSE i \in 1..Len(s) : P(s[i]) /\ \A j \in 1..(i - 1) : ~P(s[j])
  ELSE 0

(***************************************************************************)
(* The Tk canvas: a display list in stacking order.                        *)
(*   id   item id (never reused)                                           *)
(*   kind "line" | "rect" | "arc" | "image" | "text"                      *)
(*   tags the item's tags                                                  *)
(*   box  extent in half pixels; for a line its two end points             *)
(*   hw   the item's outline width in pixels (= half width in half pixels)  *)
(*   pos  canvas.coords() of a two-coordinate item (image, text), half px   *)
(***************************************************************************)
Item(id, kind, tags, box, hw, pos) ==
  [id |-> id, kind |-> kind, tags |-> tags, box |-> box, hw |-> hw, pos |-> pos]

\* canvas.gettags(item): the empty tuple for an item that no longer exists
gettags(cv, id) ==
  IF \E k \in 1..Len(cv) : cv[k].id = id
  THEN cv[CHOOSE k \in 1..Len(cv) : cv[k].id = id].tags
  ELSE {}

\* canvas.delete(item)
delete(cv, id) == SelectSeq(cv, LAMBDA it : it.id # id)

\* does the segment (ax,ay)-(bx,by) meet the open rectangle (l,r) x (t,b)
SegHit(sg, l, t, r, b) ==
  LET ax == sg[1]  ay == sg[2]  bx == sg[3]  by == sg[4]
      side(px, py) == (bx - ax) * (py - ay) - (by - ay) * (px - ax)
      c == {side(l, t), side(r, t), side(l, b), side(r, b)}
  IN  /\ ~(r <= Min(ax, bx) \/ l >= Max(ax, bx) \/ b <= Min(ay, by) \/ t >= Max(ay, by))
      /\ ~(\A v \in c : v > 0)
      /\ ~(\A v \in c : v < 0)

\* does the item meet the square of half side tol around (x, y)
Overlaps(it, x, y, tol) ==
  LET l == 2 * (x - tol)  r == 2 * (x + tol)
      t == 2 * (y - tol)  b == 2 * (y + tol)
  IN  IF it.kind = "line"
      THEN SegHit(it.box, l - it.hw, t - it.hw, r + it.hw, b + it.hw)
      ELSE ~(r <= it.box[1] - it.hw \/ l >= it.box[3] + it.hw
             \/ b <= it.box[2] - it.hw \/ t >= it.box[4] + it.hw)

\* canvas.find_overlapping(x - tol, y - tol, x + tol, y + tol): ids in
\* stacking order
find_overlapping(cv, x, y, tol) ==
  LET hit == SelectSeq(cv, LAMBDA it : Overlaps(it, x, y, tol))
  IN  [k \in 1..Len(hit) |-> hit[k].id]

(***************************************************************************)
(* The add operations.  Each works on a record M of the six collections,   *)
(* the canvas and the id counter, and yields the record after the call;    *)
(* M.raised tells that the call ended by raising.                          *)
(***************************************************************************)
Model ==
  [walls |-> walls, rooms |-> rooms, doors |-> doors, windows |-> windows,
   staircases |-> staircases, furniture |-> furniture,
   canvas |-> canvas, nextId |-> nextId, raised |-> FALSE]

\* add_wall with the end point left as the pointer gave it
WallRecordEndRaw(x1, y1, x2, y2, wall_id) ==
  <<Snap(x1), Snap(y1), x2, y2, wall_id>>

\* the wall tuple add_wall stores: all four coordinates grid-snapped
WallRecord(x1, y1, x2, y2, wall_id) ==
  <<Snap(x1), Snap(y1), Snap(x2), Snap(y2), wall_id>>

\* add_wall: the line and the record are created first; the measurement label
\* is then requested with create_text(..., bg='white'), an option canvas text
\* items do not have, so Tk raises TclError whenever show_measurements is set
add_wall(M, x1, y1, x2, y2) ==
  LET w    == WallRecord(x1, y1, x2, y2, M.nextId)
      line == Item(M.nextId, "line", {"wall"},
                   <<2 * w[1], 2 * w[2], 2 * w[3], 2 * w[4]>>, 6, <<0, 0>>)
  IN  [M EXCEPT !.walls  = Append(@, w),
                !.canvas = Append(@, line),
                !.nextId = @ + 1,
                !.raised = show_measurements]

\* add_room: four add_wall calls, then the room rectangle and the room record;
\* a raise in an add_wall call propagates (it is outside the try block)
add_room(M, px1, py1, px2, py2) ==
  LET x1 == Snap(Min(px1, px2))  x2 == Snap(Max(px1, px2))
      y1 == Snap(Min(py1, py2))  y2 == Snap(Max(py1, py2))
      a  == add_wall(M, x1, y1, x2, y1)
      b  == add_wall(a, x1, y2, x2, y2)
      c  == add_wall(b, x1, y1, x1, y2)
      d  == add_wall(c, x2, y1, x2, y2)
      room == Item(d.nextId, "rect", {"room"},
                   <<2 * x1 + 6, 2 * y1 + 6, 2 * x2 - 6, 2 * y2 - 6>>, 1, <<0, 0>>)
      \* tag_lower(room_id), then tag_raise of every wall item in display order
      below  == SelectSeq(d.canvas, LAMBDA it : "wall" \notin it.tags)
      above  == SelectSeq(d.canvas, LAMBDA it : "wall" \in it.tags)
      withRoom == [d EXCEPT !.canvas = <<room>> \o below \o above,
                            !.nextId = @ + 1]
  IN  IF Abs(x2 - x1) < 20 \/ Abs(y2 - y1) < 20 THEN M
      ELSE IF a.raised THEN a
      ELSE IF b.raised THEN b
      ELSE IF c.raised THEN c
      ELSE IF d.raised THEN d
      ELSE [withRoom EXCEPT !.rooms = Append(@, <<x1, y1, x2, y2, room.id>>)]

\* add_door: arc plus two handles; the anchor is stored as given
add_door(M, x, y) ==
  LET door_width == 30
      door_id == M.nextId
      handle1 == M.nextId + 1
      handle2 == M.nextId + 2
      arc == Item(door_id, "arc", {"door"},
                  <<2 * x, 2 * y - door_width, 2 * x + door_width, 2 * y>>, 3, <<0, 0>>)
      h1  == Item(handle1, "rect", {"door", "handle", "left"},
                  <<2 * x - door_width - 5, 2 * y - 5,
                    2 * x - door_width + 5, 2 * y + 5>>, 1, <<0, 0>>)
      h2  == Item(handle2, "rect", {"door", "handle", "right"},
                  <<2 * x + door_width - 5, 2 * y - 5,
                    2 * x + door_width + 5, 2 * y + 5>>, 1, <<0, 0>>)
  IN  [M EXCEPT !.canvas = @ \o <<arc, h1, h2>>,
                !.nextId = @ + 3,
                !.doors  = Append(@, <<x, y, door_width, door_id, handle1, handle2, 0>>)]

\* add_window: one rectangle; the anchor is stored as given
add_window(M, x, y) ==
  LET window_size == 30
      rect == Item(M.nextId, "rect", {"window"},
                   <<2 * x - window_size, 2 * y - window_size,
                     2 * x + window_size, 2 * y + window_size>>, 2, <<0, 0>>)
  IN  [M EXCEPT !.canvas  = Append(@, rect),
                !.nextId  = @ + 1,
                !.windows = Append(@, <<x, y, rect.id>>)]

\* half extent of a furniture label (two lines of 7 pt text), in half pixels
LabelHalfW == 60
LabelHalfH == 20
\* side of the library images create_furniture_images builds, in pixels
ImageSize == 60

\* the furniture tuple with the size of the library image as its footprint
FurnitureRecordImageSize(ftype, x, y, furniture_id) ==
  <<ftype, x, y, ImageSize, ImageSize, 0, furniture_id>>

\* the furniture tuple add_furniture stores: footprint from the type table,
\* rotation 0
FurnitureRecord(ftype, x, y, furniture_id) ==
  <<ftype, x, y, furniture_types[ftype].width, furniture_types[ftype].height, 0,
    furniture_id>>

\* add_furniture: the library image centred on the snapped anchor plus a text
\* label below it; both carry the single tag 'furniture'
add_furniture(M, ftype, px, py) ==
  LET height == furniture_types[ftype].height
      x == Snap(px)
      y == Snap(py)
      furniture_id == M.nextId
      image == Item(furniture_id, "image", {"furniture"},
                    <<2 * x - ImageSize, 2 * y - ImageSize,
                      2 * x + ImageSize, 2 * y + ImageSize>>, 0, <<2 * x, 2 * y>>)
      ty    == 2 * y + height + 20
      text  == Item(M.nextId + 1, "text", {"furniture"},
                    <<2 * x - LabelHalfW, ty - LabelHalfH,
                      2 * x + LabelHalfW, ty + LabelHalfH>>, 0, <<2 * x, ty>>)
  IN  IF ftype \notin DOMAIN furniture_types THEN M
      ELSE [M EXCEPT !.canvas = @ \o <<image, text>>,
                     !.nextId = @ + 2,
                     !.furniture = Append(@, FurnitureRecord(ftype, x, y,
                                                             furniture_id))]

\* the direction test with >= in place of >
DirectionGeq(width, height) == IF width >= height THEN "horizontal" ELSE "vertical"

\* direction of a staircase of the given stored extent
Direction(width, height) == IF width > height THEN "horizontal" ELSE "vertical"

\* number of steps drawn on the canvas
num_steps(width, height) == Max(3, Min(10, Max(width, height) \div 15))

\* add_staircase: the rectangle, then num_steps - 1 step lines, all tagged
\* exactly 'staircase'; only the rectangle's id is stored in the record
add_staircase(M, px1, py1, px2, py2) ==
  LET x1 == Snap(Min(px1, px2))  x2 == Snap(Max(px1, px2))
      y1 == Snap(Min(py1, py2))  y2 == Snap(Max(py1, py2))
      width  == Abs(x2 - x1)
      height == Abs(y2 - y1)
      direction == Direction(width, height)
      stair_id  == M.nextId
      n == num_steps(width, height)
      rect == Item(stair_id, "rect", {"staircase"},
                   <<2 * x1, 2 * y1, 2 * x2, 2 * y2>>, 2, <<0, 0>>)
      step(i) ==
        IF direction = "horizontal"
        THEN LET sx == 2 * x1 + (2 * i * width) \div n
             IN  Item(stair_id + i, "line", {"staircase"},
                      <<sx, 2 * y1, sx, 2 * y2>>, 1, <<0, 0>>)
        ELSE LET sy == 2 * y1 + (2 * i * height) \div n
             IN  Item(stair_id + i, "line", {"staircase"},
                      <<2 * x1, sy, 2 * x2, sy>>, 1, <<0, 0>>)
  IN  [M EXCEPT !.canvas = @ \o <<rect>> \o [i \in 1..(n - 1) |-> step(i)],
                !.nextId = @ + n,
                !.staircases = Append(@, <<x1, y1, x2, y2, direction, stair_id>>)]

(***************************************************************************)
(* erase_at                                                                *)
(***************************************************************************)
\* canvas.delete for every id of a set
deleteAll(cv, ids) == SelectSeq(cv, LAMBDA it : it.id \notin ids)

\* the items the staircase branch deletes: every item whose tags are exactly
\* ('staircase',), whichever staircase it belongs to
StaircaseSweep(cv) == {cv[k].id : k \in {j \in 1..Len(cv) : cv[j].tags = {"staircase"}}}

\* the items the furniture branch deletes: every 'furniture' item whose centre
\* is within 5 pixels of the erased record's anchor
FurnitureSweep(cv, fx, fy) ==
  {cv[k].id : k \in {j \in 1..Len(cv) :
       /\ "furniture" \in cv[j].tags
       /\ Abs(cv[j].pos[1] - 2 * fx) < 10
       /\ Abs(cv[j].pos[2] - 2 * fy) < 10}}

\* one iteration of the loop "for item in items" of erase_at;
\* ret is set when the iteration leaves the function (return)
EraseItem(M, item) ==
  LET tags == gettags(M.canvas, item)
      wi == FirstIdx(M.walls, LAMBDA w : w[5] = item)
      ri == FirstIdx(M.rooms, LAMBDA r : r[5] = item)
      di == FirstIdx(M.doors, LAMBDA d : d[4] = item \/ d[5] = item \/ d[6] = item)
      ni == FirstIdx(M.windows, LAMBDA w : w[3] = item)
      si == FirstIdx(M.staircases, LAMBDA t : t[6] = item)
      fi == FirstIdx(M.furniture, LAMBDA f : f[7] = item)
      gone(N) == [N EXCEPT !.canvas = delete(@, item)]
  IN  IF "temp" \in tags THEN [M |-> M, ret |-> FALSE]
      ELSE IF "wall" \in tags THEN
        [M |-> gone(IF wi = 0 THEN M ELSE [M EXCEPT !.walls = RemoveAt(@, wi)]),
         ret |-> FALSE]
      ELSE IF "room" \in tags THEN
        [M |-> gone(IF ri = 0 THEN M ELSE [M EXCEPT !.rooms = RemoveAt(@, ri)]),
         ret |-> FALSE]
      ELSE IF "door" \in tags THEN
        [M |-> gone(IF di = 0 THEN M
                    ELSE [M EXCEPT !.doors = RemoveAt(@, di),
                                   !.canvas = deleteAll(@, {M.doors[di][4],
                                                            M.doors[di][5],
                                                            M.doors[di][6]})]),
         ret |-> FALSE]
      ELSE IF "window" \in tags THEN
        [M |-> gone(IF ni = 0 THEN M ELSE [M EXCEPT !.windows = RemoveAt(@, ni)]),
         ret |-> FALSE]
      ELSE IF "staircase" \in tags THEN
        [M |-> gone(IF si = 0 THEN M
                    ELSE [M EXCEPT !.staircases = RemoveAt(@, si),
                                   !.canvas = deleteAll(@, StaircaseSweep(@))]),
         ret |-> FALSE]
      ELSE IF "furniture" \in tags /\ fi # 0 THEN
        [M |-> [M EXCEPT !.furniture = RemoveAt(@, fi),
                         !.canvas = deleteAll(@, FurnitureSweep(@, M.furniture[fi][2],
                                                                M.furniture[fi][3]))],
         ret |-> TRUE]
      ELSE [M |-> gone(M), ret |-> FALSE]

RECURSIVE EraseLoop(_, _)
EraseLoop(M, items) ==
  IF items = <<>> THEN M
  ELSE LET r == EraseItem(M, Head(items))
       IN  IF r.ret THEN r.M ELSE EraseLoop(r.M, Tail(items))

\* erase_at(x, y): every item within the tolerance square is processed, in
\* stacking order
erase_at(M, x, y) ==
  LET tolerance == 10
  IN  EraseLoop(M, find_overlapping(M.canvas, x, y, tolerance))

(***************************************************************************)
(* State machine                                                           *)
(***************************************************************************)
\* "no furniture type selected" (a falsy value, as None is in the code)
NoType == ""

\* number of entity records of a model record
Count(M) ==
  Len(M.walls) + Len(M.rooms) + Len(M.doors) + Len(M.windows)
    + Len(M.staircases) + Len(M.furniture)

\* commit the collections, canvas and id counter of a model record
Store(M) ==
  /\ walls' = M.walls
  /\ rooms' = M.rooms
  /\ doors' = M.doors
  /\ windows' = M.windows
  /\ staircases' = M.staircases
  /\ furniture' = M.furniture
  /\ canvas' = M.canvas
  /\ nextId' = M.nextId

\* the editor after __init__
InitEditor ==
  /\ current_tool = "wall"
  /\ drawing = FALSE
  /\ start_x = 0
  /\ start_y = 0
  /\ walls = <<>>
  /\ rooms = <<>>
  /\ doors = <<>>
  /\ windows = <<>>
  /\ staircases = <<>>
  /\ furniture = <<>>
  /\ selected_door = None
  /\ selected_furniture = None
  /\ dragging_furniture = FALSE
  /\ selected_furniture_type = NoType
  /\ canvas = <<>>
  /\ nextId = 1
  /\ temp = "none"
  /\ mouse = "up"
  /\ created = 0
  /\ resize_log = {}

\* set_tool(tool): a tool button of the side panel
set_tool(tool) ==
  /\ mouse = "up"
  /\ UNCHANGED <<exportVars, desktopVars, viewerVars>>
  /\ current_tool' = tool
  /\ selected_furniture_type' = IF tool # "furniture" THEN NoType
                                ELSE selected_furniture_type
  /\ UNCHANGED <<drawing, start_x, start_y, walls, rooms, doors, windows,
                 staircases, furniture, selected_door, selected_furniture,
                 dragging_furniture, canvas, nextId, temp, mouse, created,
                 resize_log>>

\* select_furniture_type(ftype): a button of the furniture library
select_furniture_type(ftype) ==
  /\ mouse = "up"
  /\ UNCHANGED <<exportVars, desktopVars, viewerVars>>
  /\ selected_furniture_type' = ftype
  /\ current_tool' = "furniture"
  /\ UNCHANGED <<drawing, start_x, start_y, walls, rooms, doors, windows,
                 staircases, furniture, selected_door, selected_furniture,
                 dragging_furniture, canvas, nextId, temp, mouse, created,
                 resize_log>>

\* the furniture record the furniture tool grabs at (x, y): the first record
\* owning the first overlapping 'furniture' item that is some record's main
\* graphic; 0 when the click grabs nothing
GrabbedFurniture(x, y) ==
  LET items == find_overlapping(canvas, x, y, 10)
      owned == SelectSeq(items, LAMBDA item :
                 /\ "furniture" \in gettags(canvas, item)
                 /\ \E i \in 1..Len(furniture) : furniture[i][7] = item)
  IN  IF owned = <<>> THEN 0
      ELSE FirstIdx(furniture, LAMBDA f : f[7] = Head(owned))

\* the door record the door tool grabs at (x, y) by one of its handles
GrabbedDoor(x, y) ==
  LET items == find_overlapping(canvas, x, y, 5)
      owned == SelectSeq(items, LAMBDA item :
                 /\ "handle" \in gettags(canvas, item)
                 /\ \E i \in 1..Len(doors) : doors[i][5] = item \/ doors[i][6] = item)
  IN  IF owned = <<>> THEN 0
      ELSE FirstIdx(doors, LAMBDA d : d[5] = Head(owned) \/ d[6] = Head(owned))

\* on_click: <Button-1> on the canvas
on_click(x, y) ==
  /\ mouse = "up"
  /\ current_tool = "erase" \/ created < MaxEntities
  /\ mouse' = "down"
  /\ resize_log' = {}
  /\ UNCHANGED <<current_tool, selected_furniture_type, temp>>
  /\ UNCHANGED <<exportVars, desktopVars, viewerVars>>
  /\ IF current_tool = "erase" THEN
       /\ Store(erase_at(Model, x, y))
       /\ UNCHANGED <<drawing, start_x, start_y, selected_door,
                      selected_furniture, dragging_furniture>>
     ELSE IF current_tool = "furniture" THEN
       IF GrabbedFurniture(x, y) # 0 THEN
         /\ selected_furniture' = GrabbedFurniture(x, y)
         /\ dragging_furniture' = TRUE
         /\ start_x' = x
         /\ start_y' = y
         /\ UNCHANGED <<drawing, selected_door, walls, rooms, doors, windows,
                        staircases, furniture, canvas, nextId>>
       ELSE
         /\ Store(IF selected_furniture_type # NoType
                  THEN add_furniture(Model, selected_furniture_type, x, y)
                  ELSE Model)
         /\ UNCHANGED <<drawing, start_x, start_y, selected_door,
                        selected_furniture, dragging_furniture>>
     ELSE IF current_tool = "door" THEN
       IF GrabbedDoor(x, y) # 0 THEN
         /\ selected_door' = GrabbedDoor(x, y)
         /\ drawing' = TRUE
         /\ start_x' = x
         /\ start_y' = y
         /\ UNCHANGED <<selected_furniture, dragging_furniture, walls, rooms,
                        doors, windows, staircases, furniture, canvas, nextId>>
       ELSE
         /\ Store(add_door(Model, x, y))
         /\ UNCHANGED <<drawing, start_x, start_y, selected_door,
                        selected_furniture, dragging_furniture>>
     ELSE
       /\ drawing' = TRUE
       /\ start_x' = x
       /\ start_y' = y
       /\ UNCHANGED <<selected_door, selected_furniture, dragging_furniture,
                      walls, rooms, doors, windows, staircases, furniture,
                      canvas, nextId>>
  /\ created' = IF current_tool \in {"furniture", "door"}
                THEN created + Len(furniture') + Len(doors')
                             - Len(furniture) - Len(doors)
                ELSE created

\* canvas.coords(item, ...) for a rectangle or arc: a missing item is ignored
SetBox(cv, id, box) ==
  [k \in 1..Len(cv) |-> IF cv[k].id = id THEN [cv[k] EXCEPT !.box = box] ELSE cv[k]]

\* the resize formula without its upper clamp
NewWidthNoMax(door_width, dx) == Max(15, door_width + dx * 2)

\* the width a resize drag event stores
NewWidth(door_width, dx) == Max(15, Min(80, door_width + dx * 2))

\* the door branch of on_drag applied to door record number i
ResizeDoor(cv, d, new_width) ==
  LET x == d[1]
      y == d[2]
      a == SetBox(cv, d[4], <<2 * x, 2 * y - new_width, 2 * x + new_width, 2 * y>>)
      b == SetBox(a, d[5], <<2 * x - new_width - 5, 2 * y - 5,
                             2 * x - new_width + 5, 2 * y + 5>>)
  IN  SetBox(b, d[6], <<2 * x + new_width - 5, 2 * y - 5,
                        2 * x + new_width + 5, 2 * y + 5>>)

\* the label loop of the furniture branch of on_drag: every two-coordinate
\* 'furniture' item within 5 pixels of the old anchor is moved to the new one
MoveLabels(cv, old_x, old_y, new_x, new_y) ==
  [k \in 1..Len(cv) |->
     IF /\ "furniture" \in cv[k].tags
        /\ Abs(cv[k].pos[1] - 2 * old_x) < 10
        /\ Abs(cv[k].pos[2] - 2 * old_y) < 10
     THEN LET sx == 2 * new_x - cv[k].pos[1]
              sy == 2 * new_y - cv[k].pos[2]
              bx == cv[k].box
          IN  [cv[k] EXCEPT !.pos = <<2 * new_x, 2 * new_y>>,
                            !.box = <<bx[1] + sx, bx[2] + sy, bx[3] + sx, bx[4] + sy>>]
     ELSE cv[k]]

\* on_drag: <B1-Motion> on the canvas
on_drag(x, y) ==
  /\ mouse = "down"
  /\ UNCHANGED <<exportVars, desktopVars, viewerVars>>
  /\ UNCHANGED <<current_tool, selected_furniture_type, mouse, drawing,
                 selected_door, selected_furniture, dragging_furniture,
                 walls, rooms, windows, staircases, nextId, created>>
  /\ IF dragging_furniture /\ selected_furniture # None THEN
       \* furniture branch
       IF selected_furniture > Len(furniture) THEN
         \* self.furniture[...] raises IndexError
         UNCHANGED <<start_x, start_y, doors, furniture, canvas, temp, resize_log>>
       ELSE
         LET f == furniture[selected_furniture]
             new_x == Snap(f[2] + (x - start_x))
             new_y == Snap(f[3] + (y - start_y))
         IN  IF \E k \in 1..Len(canvas) : canvas[k].id = f[7] THEN
               \* canvas.coords(fid, x1, y1, x2, y2) on the image item: an
               \* image takes two coordinates, Tk raises TclError
               UNCHANGED <<start_x, start_y, doors, furniture, canvas, temp,
                           resize_log>>
             ELSE
               /\ canvas' = MoveLabels(canvas, f[2], f[3], new_x, new_y)
               /\ furniture' = [furniture EXCEPT ![selected_furniture] =
                                  <<f[1], new_x, new_y, f[4], f[5], f[6], f[7]>>]
               /\ start_x' = x
               /\ start_y' = y
               /\ UNCHANGED <<doors, temp, resize_log>>
     ELSE IF ~drawing THEN
       UNCHANGED <<start_x, start_y, doors, furniture, canvas, temp, resize_log>>
     ELSE IF current_tool = "door" /\ selected_door # None THEN
       \* door resizing; the temporary drawings are deleted first
       /\ temp' = "none"
       /\ UNCHANGED <<start_x, start_y, furniture>>
       /\ IF selected_door > Len(doors) THEN
            UNCHANGED <<doors, canvas, resize_log>>
          ELSE
            LET d  == doors[selected_door]
                dx == x - start_x
                new_width == NewWidth(d[3], dx)
            IN  /\ canvas' = ResizeDoor(canvas, d, new_width)
                /\ doors' = [doors EXCEPT ![selected_door] =
                               <<d[1], d[2], new_width, d[4], d[5], d[6], d[7]>>]
                /\ resize_log' = resize_log \cup {<<dx, new_width>>}
     ELSE
       \* temporary line or rectangle of the gesture in progress
       /\ temp' = CASE current_tool = "wall" -> "line"
                    [] current_tool \in {"room", "staircase"} -> "rect"
                    [] OTHER -> "none"
       /\ UNCHANGED <<start_x, start_y, doors, furniture, canvas, resize_log>>

\* on_release: <ButtonRelease-1> on the canvas
on_release(x, y) ==
  /\ mouse = "down"
  /\ mouse' = "up"
  /\ resize_log' = {}
  /\ UNCHANGED <<current_tool, selected_furniture_type, start_x, start_y>>
  /\ UNCHANGED <<exportVars, desktopVars, viewerVars>>
  /\ IF ~drawing THEN
       UNCHANGED <<drawing, walls, rooms, doors, windows, staircases, furniture,
                   selected_door, selected_furniture, dragging_furniture,
                   canvas, nextId, temp, created>>
     ELSE
       LET M == CASE current_tool = "wall" ->
                       IF Abs(x - start_x) > 5 \/ Abs(y - start_y) > 5
                       THEN add_wall(Model, start_x, start_y, x, y) ELSE Model
                  [] current_tool = "room" ->
                       IF Abs(x - start_x) > 20 /\ Abs(y - start_y) > 20
                       THEN add_room(Model, start_x, start_y, x, y) ELSE Model
                  [] current_tool = "window" -> add_window(Model, x, y)
                  [] current_tool = "staircase" ->
                       IF Abs(x - start_x) > 20 /\ Abs(y - start_y) > 20
                       THEN add_staircase(Model, start_x, start_y, x, y) ELSE Model
                  [] OTHER -> Model
       IN  /\ temp' = "none"
           /\ Store(M)
           /\ created' = created + Count(M) - Count(Model)
           /\ IF M.raised THEN
                \* the handler is left before its last statements
                UNCHANGED <<drawing, selected_door, selected_furniture,
                            dragging_furniture>>
              ELSE
                /\ drawing' = FALSE
                /\ selected_door' = IF current_tool = "door" THEN None
                                    ELSE selected_door
                /\ dragging_furniture' =
                     IF current_tool = "furniture" THEN FALSE ELSE dragging_furniture
                /\ selected_furniture' =
                     IF current_tool = "furniture" /\ dragging_furniture THEN None
                     ELSE selected_furniture

\* clear_all: the Clear All button and the answer to its confirmation dialog
clear_all(yes) ==
  /\ mouse = "up"
  /\ UNCHANGED <<exportVars, desktopVars, viewerVars>>
  /\ UNCHANGED <<current_tool, drawing, start_x, start_y, selected_door,
                 selected_furniture, dragging_furniture, selected_furniture_type,
                 nextId, temp, mouse, created, resize_log>>
  /\ IF yes THEN
       /\ canvas' = <<>>
       /\ walls' = <<>>
       /\ rooms' = <<>>
       /\ doors' = <<>>
       /\ windows' = <<>>
       /\ staircases' = <<>>
       /\ furniture' = <<>>
     ELSE UNCHANGED <<canvas, walls, rooms, doors, windows, staircases, furniture>>

(***************************************************************************)
(* The editor's export operations.  Both only read the editor's fields;    *)
(* what they do to the outside (the file written, the window opened) is    *)
(* kept as the kind of the last thing they showed the user.                *)
(*   file_path  the answer of the save dialog, "" when it is cancelled     *)
(*   ok         whether the image processing and file I/O inside the try   *)
(*              block went through                                         *)
(***************************************************************************)
\* save_floor_plan that ends by dropping the door and furniture selection
save_floor_planDeselect(file_path, ok) ==
  /\ mouse = "up"
  /\ walls # <<>>
  /\ shown' = "showinfo"
  /\ selected_door' = None
  /\ selected_furniture' = None
  /\ UNCHANGED <<current_tool, drawing, start_x, start_y, walls, rooms, doors,
                 windows, staircases, furniture, dragging_furniture,
                 selected_furniture_type, canvas, nextId, temp, mouse, created,
                 resize_log>>
  /\ UNCHANGED <<desktopVars, viewerVars>>

\* save_floor_plan: the Save button
save_floor_plan(file_path, ok) ==
  /\ mouse = "up"
  /\ shown' = IF walls = <<>> THEN "showwarning"
              ELSE IF file_path = "" THEN shown
              ELSE IF ok THEN "showinfo"
              ELSE "showerror"
  /\ UNCHANGED <<editorVars, desktopVars, viewerVars>>

\* generate_3d: the Generate 3D button; when everything goes through the
\* viewer window stays open with the figure
generate_3d(ok) ==
  /\ mouse = "up"
  /\ shown' = IF walls = <<>> THEN "showwarning"
              ELSE IF ok THEN "viewer_window"
              ELSE "showerror"
  /\ UNCHANGED <<editorVars, desktopVars, viewerVars>>

(***************************************************************************)
(* Numbers of the 3D stage.  The code computes in floats; the model         *)
(* evaluates the same expressions exactly, on fractions <<n, d>> in lowest  *)
(* terms with d > 0.  <<0, 0>> is the result of a division by zero (nan),   *)
(* <<1, 0>> is float('inf').  A square root is taken of squares of          *)
(* fractions only: the walls of the model have rational lengths.           *)
(***************************************************************************)
Q == Int \X Int

GCD[a \in Nat, b \in Nat] == IF b = 0 THEN a ELSE GCD[b, a % b]

NaN == <<0, 0>>
Inf == <<1, 0>>

Frac[n \in Int, d \in Int] ==
  IF d = 0 THEN NaN
  ELSE LET g == GCD[Abs(n), Abs(d)]
       IN  IF d < 0 THEN <<(0 - n) \div g, (0 - d) \div g>>
           ELSE <<n \div g, d \div g>>

Num(n) == <<n, 1>>
Plus[a \in Q, b \in Q]  == Frac[a[1] * b[2] + b[1] * a[2], a[2] * b[2]]
Minus[a \in Q, b \in Q] == Frac[a[1] * b[2] - b[1] * a[2], a[2] * b[2]]
Times[a \in Q, b \in Q] == Frac[a[1] * b[1], a[2] * b[2]]
Over[a \in Q, b \in Q]  == Frac[a[1] * b[2], a[2] * b[1]]
Neg[a \in Q]            == <<0 - a[1], a[2]>>

\* a < b; false when either side is nan
Lt[a \in Q, b \in Q] ==
  IF a = NaN \/ b = NaN \/ a = Inf THEN FALSE
  ELSE IF b = Inf THEN TRUE
  ELSE a[1] * b[2] < b[1] * a[2]

Leq[a \in Q, b \in Q] == a = b \/ Lt[a, b]

\* Python's max(a, b) and min(a, b): the first argument unless the second is
\* strictly larger (smaller)
MaxQ[a \in Q, b \in Q] == IF Lt[a, b] THEN b ELSE a
MinQ[a \in Q, b \in Q] == IF Lt[b, a] THEN b ELSE a

ISqrt[n \in Nat] == CHOOSE r \in 0..n : r * r = n
SqrtQ[a \in Q] == <<ISqrt[a[1]], ISqrt[a[2]]>>

\* x*x + y*y
SumSq[x \in Q, y \in Q] == Plus[Times[x, x], Times[y, y]]

\* abs(a)
AbsQ[a \in Q] == <<Abs(a[1]), a[2]>>

\* Python's int(a): the fraction cut off towards zero
IntQ[a \in Q] ==
  IF a[1] < 0 THEN 0 - ((0 - a[1]) \div a[2]) ELSE a[1] \div a[2]

(***************************************************************************)
(* The converter (src/floor_plan_to_3d.py).  Image loading and OpenCV's    *)
(* detection are not modelled: an image is its shape (height, width) and   *)
(* the list of pixel segments detect_walls returns for it.                 *)
(***************************************************************************)
estimated_house_width == 15

\* the scale normalize_coordinates derives from the image shape
scale_of(image_shape) ==
  LET img_height == image_shape[1]
      img_width  == image_shape[2]
  IN  Over[Num(estimated_house_width), Num(Max(img_width, img_height))]

\* normalize_coordinates(walls, image_shape): <<normalized_walls, scale>>
normalize_coordinates(wall_list, image_shape) ==
  LET scale == scale_of(image_shape)
  IN  << [k \in 1..Len(wall_list) |->
            <<Times[Num(wall_list[k][1]), scale], Times[Num(wall_list[k][2]), scale],
              Times[Num(wall_list[k][3]), scale], Times[Num(wall_list[k][4]), scale]>>],
         scale >>

\* the thickness offset taken at full thickness
perpFull(dx_norm, dy_norm, thickness) ==
  <<Times[Neg[dy_norm], thickness], Times[dx_norm, thickness]>>

\* the offset <<perp_x, perp_y>> from the centre line to a long face
perp(dx_norm, dy_norm, thickness) ==
  <<Over[Times[Neg[dy_norm], thickness], Num(2)],
    Over[Times[dx_norm, thickness], Num(2)]>>

\* create_3d_wall: the six faces of the wall box, each a list of four
\* vertices <<x, y, z>>; no face for a segment of length 0
create_3d_wall(x1, y1, x2, y2, height, thickness) ==
  LET dx == Minus[x2, x1]
      dy == Minus[y2, y1]
      length == SqrtQ[SumSq[dx, dy]]
      dx_norm == Over[dx, length]
      dy_norm == Over[dy, length]
      pp == perp(dx_norm, dy_norm, thickness)
      perp_x == pp[1]
      perp_y == pp[2]
      vertices ==
        << <<Plus[x1, perp_x],  Plus[y1, perp_y],  Num(0)>>,
           <<Plus[x2, perp_x],  Plus[y2, perp_y],  Num(0)>>,
           <<Minus[x2, perp_x], Minus[y2, perp_y], Num(0)>>,
           <<Minus[x1, perp_x], Minus[y1, perp_y], Num(0)>>,
           <<Plus[x1, perp_x],  Plus[y1, perp_y],  height>>,
           <<Plus[x2, perp_x],  Plus[y2, perp_y],  height>>,
           <<Minus[x2, perp_x], Minus[y2, perp_y], height>>,
           <<Minus[x1, perp_x], Minus[y1, perp_y], height>> >>
      faces == << <<1, 2, 3, 4>>, <<5, 6, 7, 8>>, <<1, 2, 6, 5>>,
                  <<3, 4, 8, 7>>, <<1, 4, 8, 5>>, <<2, 3, 7, 6>> >>
  IN  IF length = Num(0) THEN <<>>
      ELSE [f \in 1..6 |-> [i \in 1..4 |-> vertices[faces[f][i]]]]

\* create_3d_floor: the floor quad
create_3d_floor(image_shape, scale) ==
  LET img_height == image_shape[1]
      img_width  == image_shape[2]
      width  == Times[Num(img_width), scale]
      height == Times[Num(img_height), scale]
  IN  << <<Num(0), Num(0), Num(0)>>, <<width, Num(0), Num(0)>>,
         <<width, height, Num(0)>>, <<Num(0), height, Num(0)>> >>

\* the wall loop of a pipeline: create_3d_wall for every normalized wall
wall_faces_of(normalized_walls, height, thickness) ==
  [k \in 1..Len(normalized_walls) |->
     create_3d_wall(normalized_walls[k][1], normalized_walls[k][2],
                    normalized_walls[k][3], normalized_walls[k][4],
                    height, thickness)]

(***************************************************************************)
(* The editor's 3D viewer (open_3d_viewer).                                *)
(***************************************************************************)
canvas_width == 1000
canvas_height == 700

\* "no point": the None find_nearest_wall_point returns when no wall is usable
NoPoint == <<>>

\* the viewer's scale taken from the image height alone
img_scaleOfHeight(img_width, img_height) ==
  Over[Num(estimated_house_width), Num(img_height)]

\* the scale the viewer applies to doors, windows, staircases and furniture
img_scale(img_width, img_height) ==
  Over[Num(estimated_house_width), Num(Max(img_width, img_height))]

\* the parametric position left as projected
NoClamp(t, wall_len) == t

\* t = max(0, min(wall_len, t))
Clamp(t, wall_len) == MaxQ[Num(0), MinQ[wall_len, t]]

\* the body of the loop of find_nearest_wall_point for one wall.  dist2 is the
\* square of the code's dist: the code compares distances, which are not
\* negative, so comparing them is comparing their squares
Project(px, py, w) ==
  LET wall_dx == Minus[w[3], w[1]]
      wall_dy == Minus[w[4], w[2]]
      wall_len == SqrtQ[SumSq[wall_dx, wall_dy]]
      wall_dx_norm == Over[wall_dx, wall_len]
      wall_dy_norm == Over[wall_dy, wall_len]
      to_point_dx == Minus[px, w[1]]
      to_point_dy == Minus[py, w[2]]
      t == Clamp(Plus[Times[to_point_dx, wall_dx_norm],
                      Times[to_point_dy, wall_dy_norm]], wall_len)
      nearest_x == Plus[w[1], Times[t, wall_dx_norm]]
      nearest_y == Plus[w[2], Times[t, wall_dy_norm]]
  IN  [wall_len |-> wall_len,
       t |-> t,
       nearest_point |-> <<nearest_x, nearest_y>>,
       dist2 |-> SumSq[Minus[px, nearest_x], Minus[py, nearest_y]],
       wall_normal |-> <<Neg[wall_dy_norm], wall_dx_norm>>]

\* one pass of the loop "for wx1, wy1, wx2, wy2 in walls_list" over a wall
\* whose projection is p; best carries min_dist (squared), nearest_point and
\* wall_normal
Closer(p, best) ==
  IF p.wall_len = Num(0) THEN best
  ELSE IF Lt[p.dist2, best.min_dist2]
  THEN [min_dist2 |-> p.dist2,
        nearest_point |-> p.nearest_point,
        wall_normal |-> p.wall_normal]
  ELSE best

RECURSIVE NearestLoop(_, _, _, _)
NearestLoop(px, py, walls_list, best) ==
  IF walls_list = <<>> THEN best
  ELSE NearestLoop(px, py, Tail(walls_list),
                   Closer(Project(px, py, Head(walls_list)), best))

\* the search ended at the first usable wall
find_first_wall_point(px, py, walls_list) ==
  LET usable == SelectSeq(walls_list, LAMBDA w : w[1] # w[3] \/ w[2] # w[4])
  IN  NearestLoop(px, py, IF usable = <<>> THEN <<>> ELSE <<Head(usable)>>,
                  [min_dist2 |-> Inf, nearest_point |-> NoPoint,
                   wall_normal |-> NoPoint])

\* find_nearest_wall_point(px, py, walls_list): nearest_point and wall_normal
find_nearest_wall_point(px, py, walls_list) ==
  NearestLoop(px, py, walls_list,
              [min_dist2 |-> Inf, nearest_point |-> NoPoint,
               wall_normal |-> NoPoint])

\* what the loop keeps of the projection p: nothing but the length for a wall
\* it skips
TriedEntry(p) == IF p.wall_len = Num(0) THEN [wall_len |-> Num(0)] ELSE p

\* what the loop computed wall by wall
Tried(px, py, walls_list) ==
  [k \in 1..Len(walls_list) |-> TriedEntry(Project(px, py, walls_list[k]))]

\* a vertical quad of the given width centred on (cx, cy), from z0 to z1,
\* as the viewer lays out door and window openings: along the x axis
OpeningQuad(cx, cy, width, z0, z1) ==
  << <<Minus[cx, Over[width, Num(2)]], cy, z0>>,
     <<Plus[cx, Over[width, Num(2)]], cy, z0>>,
     <<Plus[cx, Over[width, Num(2)]], cy, z1>>,
     <<Minus[cx, Over[width, Num(2)]], cy, z1>> >>

\* the offset of an opening from the snap point: half the wall thickness along
\* the wall normal
SurfaceOffset(wall_normal, wall_thickness) ==
  <<Over[Times[wall_normal[1], wall_thickness], Num(2)],
    Over[Times[wall_normal[2], wall_thickness], Num(2)]>>

\* the opening of the given width between the heights z0 and z1 for the
\* anchor (x, y), given what find_nearest_wall_point found for it: placed
\* tells whether an opening was added to the figure, quad is the opening;
\* anchor and tried keep the loop's intermediate values
Opening(x, y, found, tried, width, z0, z1, wall_thickness) ==
  [placed |-> found.nearest_point # NoPoint,
   anchor |-> <<x, y>>,
   tried |-> tried,
   nearest_point |-> found.nearest_point,
   wall_normal |-> found.wall_normal,
   width |-> width,
   quad |-> IF found.nearest_point = NoPoint THEN <<>>
            ELSE OpeningQuad(
                   Plus[found.nearest_point[1],
                        SurfaceOffset(found.wall_normal, wall_thickness)[1]],
                   Plus[found.nearest_point[2],
                        SurfaceOffset(found.wall_normal, wall_thickness)[2]],
                   width, z0, z1)]

\* the door with its pixel width converted by the scale alone
DoorAtScaleOnly(door_x_norm, door_y_norm, door_width_pixels, scale, normalized_walls) ==
  Opening(door_x_norm, door_y_norm,
          find_nearest_wall_point(door_x_norm, door_y_norm, normalized_walls),
          Tried(door_x_norm, door_y_norm, normalized_walls),
          MaxQ[Frac[6, 10],
               MinQ[Frac[12, 10], Times[Num(door_width_pixels), scale]]],
          Num(0), Frac[21, 10], Frac[2, 10])

\* the door at (door_x_norm, door_y_norm): 0.6 to 1.2 m wide, 2.1 m high
DoorAt(door_x_norm, door_y_norm, door_width_pixels, scale, normalized_walls) ==
  Opening(door_x_norm, door_y_norm,
          find_nearest_wall_point(door_x_norm, door_y_norm, normalized_walls),
          Tried(door_x_norm, door_y_norm, normalized_walls),
          MaxQ[Frac[6, 10],
               MinQ[Frac[12, 10],
                    Times[Times[Num(door_width_pixels), scale], Frac[3, 100]]]],
          Num(0), Frac[21, 10], Frac[2, 10])

\* one iteration of the loop "for door_data in doors".  The door panel (the
\* opening turned by 45 degrees about its left edge) is not modelled
door_opening(door_data, scale, normalized_walls) ==
  DoorAt(Times[Num(door_data[1]), scale], Times[Num(door_data[2]), scale],
         door_data[3], scale, normalized_walls)

\* the window at (window_x_norm, window_y_norm): 1.2 m wide, from 0.9 m to
\* 0.9 + 1.2 m
WindowAt(window_x_norm, window_y_norm, normalized_walls) ==
  Opening(window_x_norm, window_y_norm,
          find_nearest_wall_point(window_x_norm, window_y_norm, normalized_walls),
          Tried(window_x_norm, window_y_norm, normalized_walls),
          Frac[12, 10], Frac[9, 10], Plus[Frac[9, 10], Frac[12, 10]],
          Frac[2, 10])

\* one iteration of the loop "for window_data in windows"; the window frame
\* (the same quad 0.05 m further out) is not modelled
window_opening(window_data, scale, normalized_walls) ==
  WindowAt(Times[Num(window_data[1]), scale], Times[Num(window_data[2]), scale],
           normalized_walls)

\* the staircase loop: the rectangle in metres
staircase_rect(stair, scale) ==
  <<Times[Num(stair[1]), scale], Times[Num(stair[2]), scale],
    Times[Num(stair[3]), scale], Times[Num(stair[4]), scale]>>

\* the furniture loop: the anchor in metres
furniture_anchor(f, scale) ==
  <<Times[Num(f[2]), scale], Times[Num(f[3]), scale]>>

\* the step count of the 3D stage with the editor's upper limit
viewer_num_steps10(stair_width, stair_depth) ==
  Max(3, Min(10, IntQ[Over[MaxQ[stair_width, stair_depth], Frac[3, 10]]]))

\* num_steps of the staircase loop: one step per 0.3 m, 3 to 15 steps
viewer_num_steps(stair_width, stair_depth) ==
  Max(3, Min(15, IntQ[Over[MaxQ[stair_width, stair_depth], Frac[3, 10]]]))

\* the boxes of the n steps of a staircase over (sx1, sy1)-(sx2, sy2): the
\* x, y and z range of step_vertices for i = 0 .. n - 1 (element i + 1)
StepBoxes(sx1, sy1, sx2, sy2, direction, n) ==
  [k \in 1..n |->
     IF direction = "horizontal"
     THEN [x |-> <<Plus[sx1, Times[Num(k - 1), Over[AbsQ[Minus[sx2, sx1]], Num(n)]]],
                   Plus[Plus[sx1, Times[Num(k - 1), Over[AbsQ[Minus[sx2, sx1]], Num(n)]]],
                        Over[AbsQ[Minus[sx2, sx1]], Num(n)]]>>,
           y |-> <<sy1, sy2>>,
           z |-> <<Times[Num(k - 1), Over[Num(3), Num(n)]],
                   Plus[Times[Num(k - 1), Over[Num(3), Num(n)]],
                        Over[Num(3), Num(n)]]>>]
     ELSE [x |-> <<sx1, sx2>>,
           y |-> <<Plus[sy1, Times[Num(k - 1), Over[AbsQ[Minus[sy2, sy1]], Num(n)]]],
                   Plus[Plus[sy1, Times[Num(k - 1), Over[AbsQ[Minus[sy2, sy1]], Num(n)]]],
                        Over[AbsQ[Minus[sy2, sy1]], Num(n)]]>>,
           z |-> <<Times[Num(k - 1), Over[Num(3), Num(n)]],
                   Plus[Times[Num(k - 1), Over[Num(3), Num(n)]],
                        Over[Num(3), Num(n)]]>>]]

\* the staircase loop for the rectangle in metres
StepsOver(sx1, sy1, sx2, sy2, direction) ==
  StepBoxes(sx1, sy1, sx2, sy2, direction,
            viewer_num_steps(AbsQ[Minus[sx2, sx1]], AbsQ[Minus[sy2, sy1]]))

\* one iteration of the loop "for ... in staircases": the boxes of the steps
staircase_steps(stair, scale) ==
  StepsOver(Times[Num(stair[1]), scale], Times[Num(stair[2]), scale],
            Times[Num(stair[3]), scale], Times[Num(stair[4]), scale], stair[5])

\* a run of the 3D stage is given (job):
\*   kind            "editor" (open_3d_viewer) or "cli" (generate_3d_model)
\*   image_shape     (height, width) of the loaded image
\*   detected        what detect_walls returned for it, in pixels
\*   doors .. furniture, img_width, img_height   open_3d_viewer's arguments
\*   wall_height, wall_thickness                 the converter's parameters
NoJob == [kind |-> "none"]
NoScene == [op |-> "none"]

\* open_3d_viewer: everything the viewer adds to the figure
open_3d_viewer ==
  /\ job.kind = "editor"
  /\ LET nw == normalize_coordinates(job.detected, job.image_shape)
         normalized_walls == nw[1]
         scale == nw[2]
         scale2 == img_scale(job.img_width, job.img_height)
     IN  scene' =
           [op |-> "open_3d_viewer",
            scale |-> scale,
            img_scale |-> scale2,
            normalized_walls |-> normalized_walls,
            floor |-> create_3d_floor(job.image_shape, scale),
            wall_faces |-> wall_faces_of(normalized_walls, Num(3), Frac[2, 10]),
            doors |-> [k \in 1..Len(job.doors) |->
                         door_opening(job.doors[k], scale2, normalized_walls)],
            windows |-> [k \in 1..Len(job.windows) |->
                           window_opening(job.windows[k], scale2, normalized_walls)],
            staircases |-> [k \in 1..Len(job.staircases) |->
                              staircase_rect(job.staircases[k], scale2)],
            stair_steps |-> [k \in 1..Len(job.staircases) |->
                               staircase_steps(job.staircases[k], scale2)],
            furniture |-> [k \in 1..Len(job.furniture) |->
                             furniture_anchor(job.furniture[k], scale2)]]
  /\ UNCHANGED <<job, editorVars, exportVars, desktopVars>>

\* generate_3d_model: the converter's own pipeline (command line)
generate_3d_model ==
  /\ job.kind = "cli"
  /\ LET nw == normalize_coordinates(job.detected, job.image_shape)
         normalized_walls == nw[1]
         scale == nw[2]
     IN  scene' =
           [op |-> "generate_3d_model",
            scale |-> scale,
            normalized_walls |-> normalized_walls,
            floor |-> create_3d_floor(job.image_shape, scale),
            wall_faces |-> wall_faces_of(normalized_walls, job.wall_height,
                                         job.wall_thickness)]
  /\ UNCHANGED <<job, editorVars, exportVars, desktopVars>>

\* all lists of at most n elements of S
SeqsUpTo(S, n) == UNION {[1..k -> S] : k \in 0..n}

\* the runs of the editor's viewer: the image is the one generate_3d wrote
\* (canvas size), with at most one door and one window, one staircase and one
\* chair
EditorJobs ==
  [kind : {"editor"},
   image_shape : {<<canvas_height, canvas_width>>},
   img_width : {canvas_width},
   img_height : {canvas_height},
   detected : SeqsUpTo(DetectedPool, MaxWalls),
   doors : {<<>>} \cup {<< <<a[1], a[2], 30, 1, 2, 3, 0>> >> : a \in DoorAnchors},
   windows : {<<>>} \cup {<< <<a[1], a[2], 4>> >> : a \in WindowAnchors},
   staircases : {<< <<600, 400, 700, 600, "vertical", 5>> >>},
   furniture : {<< <<"chair", 800, 300, 25, 25, 0, 6>> >>}]

\* the runs of the command line pipeline
CliJobs ==
  [kind : {"cli"},
   image_shape : ImageShapes,
   detected : SeqsUpTo(DetectedPool, MaxWalls),
   wall_height : WallHeights,
   wall_thickness : WallThicknesses]

Jobs == EditorJobs \cup CliJobs

\* corners and extents (pixels, on the grid) of the staircases of the
\* single-entity runs
StairCorners == { <<0, 0>>, <<600, 300>> }
StairSizes == {20, 60, 100, 200, 300, 400}

\* the staircase records add_staircase can store from them on the canvas
StoredStairs ==
  { <<c[1], c[2], c[1] + w, c[2] + h, Direction(w, h), 1>> :
      <<c, w, h>> \in { t \in StairCorners \X StairSizes \X StairSizes :
                          /\ t[1][1] + t[2] <= canvas_width
                          /\ t[1][2] + t[3] <= canvas_height } }

\* runs of the editor's viewer on a plan with one detected wall and a
\* single staircase
StairJobs ==
  [kind : {"editor"},
   image_shape : {<<canvas_height, canvas_width>>},
   img_width : {canvas_width},
   img_height : {canvas_height},
   detected : {<< <<50, 50, 950, 50>> >>, << <<200, 200, 200, 600>> >>},
   doors : {<<>>},
   windows : {<<>>},
   staircases : { <<st>> : st \in StoredStairs },
   furniture : {<<>>}]

\* the widths on_drag's resize formula can store in a door record
DoorWidths == 15..80

\* runs of the editor's viewer on a plan with the wall (200,200)-(600,200)
\* and a single door on it or below it
DoorJobs ==
  [kind : {"editor"},
   image_shape : {<<canvas_height, canvas_width>>},
   img_width : {canvas_width},
   img_height : {canvas_height},
   detected : {<< <<200, 200, 600, 200>> >>},
   doors : { << <<a[1], a[2], w, 1, 2, 3, 0>> >> :
               <<a, w>> \in {<<400, 200>>, <<320, 360>>} \X DoorWidths },
   windows : {<<>>},
   staircases : {<<>>},
   furniture : {<<>>}]

EntityJobs == StairJobs \cup DoorJobs

(***************************************************************************)
(* The desktop front end (src/ui_desktop.py).  The Tk main loop runs one    *)
(* handler or one root.after callback at a time; every press of "Generate"  *)
(* starts a worker thread, and the threads' statements interleave with the  *)
(* main loop and with each other.                                           *)
(*   threads      one record of the thread's position and locals per run    *)
(*   after_queue  the callbacks scheduled with root.after(0, ...), in order *)
(*   handed       history: the model_data of every hand-over, in order      *)
(*   received     history: what _create_3d_visualization was called with    *)
(*                and what it built from it                                 *)
(* The worker's calls of self.log are not modelled.                         *)
(***************************************************************************)
\* number of presses of "Generate" in one run of the model
MaxRuns == 2

\* the answers of the file dialog; "" is a cancelled dialog
DesktopPaths == {"", "plan.png", "notes.txt"}

NoImage == [ok |-> FALSE, shape |-> <<>>, detected |-> <<>>]

\* what cv2.imread and detect_walls give for each file; a file that is not
\* an image makes load_floor_plan raise
Files(path) ==
  CASE path = "plan.png" ->
         [ok |-> TRUE, shape |-> <<800, 1000>>,
          detected |-> << <<50, 50, 950, 50>>, <<200, 200, 200, 600>> >>]
    [] path = "sample.png" ->
         [ok |-> TRUE, shape |-> <<1200, 1000>>,
          detected |-> << <<200, 200, 500, 600>> >>]
    [] OTHER -> NoImage

NoConverter == [wall_height |-> <<>>, wall_thickness |-> <<>>]

NoLocal == <<>>

InitDesktop ==
  /\ floor_plan_path = ""
  /\ btn_generate = "disabled"
  /\ wall_height_var = Num(3)
  /\ wall_thickness_var = Frac[2, 10]
  /\ converter = NoConverter
  /\ threads = <<>>
  /\ after_queue = <<>>
  /\ model_canvas = 0
  /\ handed = <<>>
  /\ received = <<>>

\* the callback scheduled twice
root_afterTwice(queue, cb) == Append(Append(queue, cb), cb)

\* the callback put in front of the waiting ones
root_afterFront(queue, cb) == <<cb>> \o queue

\* root.after(0, cb): the callback joins the main loop's queue
root_after(queue, cb) == Append(queue, cb)

\* the dictionary the worker builds from its locals
model_data_of(t) ==
  [normalized_walls |-> t.normalized_walls,
   scale |-> t.scale,
   image_shape |-> t.image.shape,
   wall_height |-> t.wall_height,
   wall_thickness |-> t.wall_thickness]

select_floor_plan(file_path) ==
  /\ IF file_path # ""
       THEN /\ floor_plan_path' = file_path
            /\ btn_generate' = "normal"
       ELSE UNCHANGED <<floor_plan_path, btn_generate>>
  /\ UNCHANGED <<wall_height_var, wall_thickness_var, converter, threads,
                 after_queue, model_canvas, handed, received>>
  /\ UNCHANGED <<editorVars, exportVars, viewerVars>>

\* the wall height slider (the thickness slider is left where it starts)
set_wall_height(v) ==
  /\ wall_height_var' = v
  /\ UNCHANGED <<floor_plan_path, btn_generate, wall_thickness_var, converter,
                 threads, after_queue, model_canvas, handed, received>>
  /\ UNCHANGED <<editorVars, exportVars, viewerVars>>

\* FloorPlan3DApp.generate_3d, the command of the "Generate" button; a
\* disabled button does not call it
FloorPlan3DApp_generate_3d ==
  /\ btn_generate = "normal"
  /\ Len(threads) < MaxRuns
  /\ IF floor_plan_path = ""
       THEN UNCHANGED <<btn_generate, threads>>
       ELSE /\ btn_generate' = "disabled"
            /\ threads' = Append(threads,
                 [pc |-> "start", failed |-> FALSE,
                  wall_height |-> NoLocal, wall_thickness |-> NoLocal,
                  image |-> NoImage, walls |-> NoLocal,
                  normalized_walls |-> NoLocal, scale |-> NoLocal])
  /\ UNCHANGED <<floor_plan_path, wall_height_var, wall_thickness_var,
                 converter, after_queue, model_canvas, handed, received>>
  /\ UNCHANGED <<editorVars, exportVars, viewerVars>>

\* _generate_3d_thread, one step of the thread of run i.  A step is one
\* access to what the threads share (the Tk variables, self.converter,
\* self.floor_plan_path, the main loop's queue) together with the statements
\* on the thread's own locals that follow it.
generate_3d_thread(i) ==
  LET t == threads[i]
      image == Files(floor_plan_path)
      norm == normalize_coordinates(image.detected, image.shape)
  IN
  /\ i \in 1..Len(threads)
  /\ t.pc # "done"
  /\ CASE t.pc = "start" ->
            /\ threads' = [threads EXCEPT ![i] =
                 [t EXCEPT !.pc = "load",
                           !.wall_height = wall_height_var,
                           !.wall_thickness = wall_thickness_var]]
            /\ converter' = [wall_height |-> wall_height_var,
                             wall_thickness |-> wall_thickness_var]
            /\ UNCHANGED <<after_queue, handed>>
       [] t.pc = "load" ->
            /\ threads' = [threads EXCEPT ![i] =
                 IF image.ok
                   THEN [t EXCEPT !.pc = "after", !.image = image,
                                  !.walls = image.detected,
                                  !.normalized_walls = norm[1],
                                  !.scale = norm[2]]
                   ELSE [t EXCEPT !.pc = "except", !.failed = TRUE]]
            /\ UNCHANGED <<converter, after_queue, handed>>
       [] t.pc = "after" ->
            /\ after_queue' = root_after(after_queue,
                 [cb |-> "_create_3d_visualization", run |-> i,
                  model_data |-> model_data_of(t)])
            /\ handed' = Append(handed,
                 [run |-> i, model_data |-> model_data_of(t)])
            /\ threads' = [threads EXCEPT ![i] = [t EXCEPT !.pc = "finally"]]
            /\ UNCHANGED converter
       [] t.pc = "except" ->
            /\ after_queue' = root_after(after_queue,
                 [cb |-> "showerror", run |-> i, model_data |-> NoLocal])
            /\ threads' = [threads EXCEPT ![i] = [t EXCEPT !.pc = "finally"]]
            /\ UNCHANGED <<converter, handed>>
       [] t.pc = "finally" ->
            /\ after_queue' = root_after(after_queue,
                 [cb |-> "enable", run |-> i, model_data |-> NoLocal])
            /\ threads' = [threads EXCEPT ![i] = [t EXCEPT !.pc = "done"]]
            /\ UNCHANGED <<converter, handed>>
  /\ UNCHANGED <<floor_plan_path, btn_generate, wall_height_var,
                 wall_thickness_var, model_canvas, received>>
  /\ UNCHANGED <<editorVars, exportVars, viewerVars>>

\* what _create_3d_visualization builds from the dictionary it is given
create_3d_visualization(run, model_data) ==
  [run |-> run,
   model_data |-> model_data,
   floor |-> create_3d_floor(model_data.image_shape, model_data.scale),
   wall_faces |-> wall_faces_of(model_data.normalized_walls,
                                model_data.wall_height,
                                model_data.wall_thickness)]

\* the main loop runs the oldest scheduled callback
mainloop ==
  LET c == Head(after_queue) IN
  /\ after_queue # <<>>
  /\ after_queue' = Tail(after_queue)
  /\ CASE c.cb = "_create_3d_visualization" ->
            /\ received' = Append(received,
                 create_3d_visualization(c.run, c.model_data))
            /\ model_canvas' = c.run
            /\ UNCHANGED btn_generate
       [] c.cb = "showerror" ->
            UNCHANGED <<received, model_canvas, btn_generate>>
       [] c.cb = "enable" ->
            /\ btn_generate' = "normal"
            /\ UNCHANGED <<received, model_canvas>>
  /\ UNCHANGED <<floor_plan_path, wall_height_var, wall_thickness_var,
                 converter, threads, handed>>
  /\ UNCHANGED <<editorVars, exportVars, viewerVars>>

\* the main loop takes the oldest callback off its queue: what every step
\* of mainloop, and of no other action, does to the queue
run_callback ==
  /\ after_queue # <<>>
  /\ after_queue' = Tail(after_queue)

(***************************************************************************)
(* Staircase steps in the editor: what add_staircase draws on the canvas    *)
(* and what the staircase loop of save_floor_plan draws into the saved      *)
(* image.  A run is given (job) either a stored extent (width, height) or   *)
(* the two corners of a staircase gesture.                                  *)
(***************************************************************************)
\* extents (pixels) of the step counting runs
StairExtents == {0, 20, 40, 45, 60, 100, 140, 150, 160, 300}

\* corners of the staircase gestures
StairPoints == { <<40, 40>>, <<45, 44>>, <<100, 200>>, <<190, 90>>, <<400, 70>> }

\* the step count of the saved image with the 3D stage's upper limit
raster_num_steps15(width, height) == Max(3, Min(15, Max(width, height) \div 15))

\* number of steps save_floor_plan draws for a staircase of the stored extent
raster_num_steps(width, height) == Max(3, Min(10, Max(width, height) \div 15))

\* the step lines save_floor_plan draws for the record stair: step_x (or
\* step_y) of every line
raster_step_lines(stair) ==
  LET width  == Abs(stair[3] - stair[1])
      height == Abs(stair[4] - stair[2])
      n == raster_num_steps(width, height)
  IN  [i \in 1..(n - 1) |->
         IF stair[5] = "horizontal"
         THEN Plus[Num(stair[1]), Times[Num(i), Frac[width, n]]]
         ELSE Plus[Num(stair[2]), Times[Num(i), Frac[height, n]]]]

\* the step lines of a canvas
CanvasStepLines(cv) ==
  SelectSeq(cv, LAMBDA it : it.kind = "line" /\ it.tags = {"staircase"})

\* both step counts for a stored extent
count_steps ==
  /\ job.kind = "extent"
  /\ scene' = [op |-> "num_steps",
               canvas |-> num_steps(job.width, job.height),
               raster |-> raster_num_steps(job.width, job.height)]
  /\ UNCHANGED <<job, editorVars, exportVars, desktopVars>>

\* what a staircase gesture leaves: the record, the step lines add_staircase
\* put on the canvas, and the step lines a following save draws
StaircaseDrawn(M) ==
  [op |-> "add_staircase",
   record |-> M.staircases[Len(M.staircases)],
   canvas_lines |-> Len(CanvasStepLines(M.canvas)),
   raster_lines |-> Len(raster_step_lines(M.staircases[Len(M.staircases)])),
   raster_at |-> raster_step_lines(M.staircases[Len(M.staircases)])]

\* a staircase gesture on the empty editor followed by a save
draw_staircase ==
  /\ job.kind = "gesture"
  /\ scene' = StaircaseDrawn(add_staircase(Model, job.from[1], job.from[2],
                                            job.to[1], job.to[2]))
  /\ UNCHANGED <<job, editorVars, exportVars, desktopVars>>

\* the runs: every pair of extents, and every gesture on_release commits
StepJobs ==
  [kind : {"extent"}, width : StairExtents, height : StairExtents]
    \cup { [kind |-> "gesture", from |-> a, to |-> b] :
             <<a, b>> \in { g \in StairPoints \X StairPoints :
                              /\ Abs(g[2][1] - g[1][1]) > 20
                              /\ Abs(g[2][2] - g[1][2]) > 20 } }

(***************************************************************************)
(* Grid snap of one coordinate                                             *)
(***************************************************************************)
\* how often a stored coordinate is committed again
MaxCommits == 2

\* pointer coordinates of the commits: on, between and half way between the
\* grid lines, also left of the canvas origin
Coordinates == (0 - 45)..250

\* an add operation snaps the pointer coordinate and stores it
commit_coordinate ==
  /\ job.kind = "coordinate"
  /\ scene = NoScene
  /\ scene' = [op |-> "snap", stored |-> Snap(job.x), commits |-> 1]
  /\ UNCHANGED <<job, editorVars, exportVars, desktopVars>>

\* an add operation is given the stored coordinate
recommit_coordinate ==
  /\ scene.op = "snap"
  /\ scene.commits <= MaxCommits
  /\ scene' = [op |-> "snap", stored |-> Snap(scene.stored),
               commits |-> scene.commits + 1]
  /\ UNCHANGED <<job, editorVars, exportVars, desktopVars>>

SnapJobs == [kind : {"coordinate"}, x : Coordinates]

(***************************************************************************)
(* A furniture move gesture: the editor right after the press that grabbed *)
(* the only item of the plan, followed by drag events and the release.     *)
(***************************************************************************)
\* where the item was placed, where it is grabbed and where the pointer is
\* dragged to
PlacePoints == { <<40, 40>>, <<45, 44>>, <<100, 60>>, <<110, 70>> }
GrabOffsets == { <<0, 0>>, <<8, 0>>, <<0 - 8, 0>>, <<0, 8>>, <<0, 0 - 8>>,
                 <<3, 4>>, <<0 - 6, 5>>, <<12, 12>>, <<0 - 15, 0 - 15>> }
MovePoints == { <<40, 40>>, <<48, 40>>, <<56, 40>>, <<60, 80>>, <<100, 60>>, <<131, 27>> }
MoveTypes == {"chair", "sofa", "bed"}

\* the collections, canvas and id counter after __init__
NewModel ==
  [walls |-> <<>>, rooms |-> <<>>, doors |-> <<>>, windows |-> <<>>,
   staircases |-> <<>>, furniture |-> <<>>,
   canvas |-> <<>>, nextId |-> 1, raised |-> FALSE]

\* the gestures: an item of type ftype placed by a click at placed and
\* pressed at press
MoveJobs ==
  { [kind |-> "move", ftype |-> t, placed |-> c,
     press |-> <<Snap(c[1]) + o[1], Snap(c[2]) + o[2]>>] :
      <<t, c, o>> \in MoveTypes \X PlacePoints \X GrabOffsets }

\* pointer positions of the wall and room gestures: two of them 8 pixels
\* apart around no grid tie, so that both snap to the same grid point
WallPoints == { <<40, 40>>, <<48, 40>>, <<42, 49>>, <<70, 70>>, <<110, 95>> }

(***************************************************************************)
(* Specifications                                                          *)
(***************************************************************************)
\* every part in its state after construction
Init ==
  /\ InitEditor
  /\ shown = "none"
  /\ InitDesktop
  /\ job = NoJob
  /\ scene = NoScene

\* the editor driven by pointer and button events
Next ==
  \/ \E tool \in Tools : set_tool(tool)
  \/ \E ftype \in UsedTypes : select_furniture_type(ftype)
  \/ \E p \in Points : on_click(p[1], p[2])
  \/ \E p \in Points : on_drag(p[1], p[2])
  \/ \E p \in Points : on_release(p[1], p[2])
  \/ \E yes \in BOOLEAN : clear_all(yes)

Spec == Init /\ [][Next]_vars

\* the same editor driven from the pointer positions of the resizing runs
NextDoor ==
  \/ \E tool \in Tools : set_tool(tool)
  \/ \E ftype \in UsedTypes : select_furniture_type(ftype)
  \/ \E p \in DoorPoints : on_click(p[1], p[2])
  \/ \E p \in DoorPoints : on_drag(p[1], p[2])
  \/ \E p \in DoorPoints : on_release(p[1], p[2])
  \/ \E yes \in BOOLEAN : clear_all(yes)

SpecDoor == Init /\ [][NextDoor]_vars

\* the editor with its export buttons, driven from the pointer positions of
\* the export runs
NextExport ==
  \/ \E tool \in Tools : set_tool(tool)
  \/ \E ftype \in UsedTypes : select_furniture_type(ftype)
  \/ \E p \in ExportPoints : on_click(p[1], p[2])
  \/ \E p \in ExportPoints : on_drag(p[1], p[2])
  \/ \E p \in ExportPoints : on_release(p[1], p[2])
  \/ \E yes \in BOOLEAN : clear_all(yes)
  \/ \E file_path \in SavePaths, ok \in BOOLEAN : save_floor_plan(file_path, ok)
  \/ \E ok \in BOOLEAN : generate_3d(ok)

SpecExport == Init /\ [][NextExport]_vars

\* the 3D stage applied to a given job
InitViewer ==
  /\ InitEditor
  /\ shown = "none"
  /\ InitDesktop
  /\ job \in Jobs
  /\ scene = NoScene

NextViewer ==
  \/ open_3d_viewer
  \/ generate_3d_model

SpecViewer == InitViewer /\ [][NextViewer]_vars

\* the desktop front end driven by its buttons, its sliders, its worker
\* threads and its main loop
NextDesktop ==
  \/ \E file_path \in DesktopPaths : select_floor_plan(file_path)
  \/ \E v \in WallHeights : set_wall_height(v)
  \/ FloorPlan3DApp_generate_3d
  \/ \E i \in 1..MaxRuns : generate_3d_thread(i)
  \/ mainloop

SpecDesktop == Init /\ [][NextDesktop]_vars

\* the editor's step counts applied to a given extent or gesture
InitSteps ==
  /\ InitEditor
  /\ shown = "none"
  /\ InitDesktop
  /\ job \in StepJobs
  /\ scene = NoScene

NextSteps ==
  \/ count_steps
  \/ draw_staircase

SpecSteps == InitSteps /\ [][NextSteps]_vars

\* the editor's viewer applied to plans with a single entity
InitEntities ==
  /\ InitEditor
  /\ shown = "none"
  /\ InitDesktop
  /\ job \in EntityJobs
  /\ scene = NoScene

NextEntities == open_3d_viewer

SpecEntities == InitEntities /\ [][NextEntities]_vars

\* the grid snap applied to a coordinate and again to what it stored
InitSnap ==
  /\ InitEditor
  /\ shown = "none"
  /\ InitDesktop
  /\ job \in SnapJobs
  /\ scene = NoScene

NextSnap ==
  \/ commit_coordinate
  \/ recommit_coordinate

SpecSnap == InitSnap /\ [][NextSnap]_vars

\* the editor after select_furniture_type(job.ftype), a click at job.placed
\* and its release, and a press at job.press that grabbed the item
InitMove ==
  /\ job \in MoveJobs
  /\ scene = NoScene
  /\ shown = "none"
  /\ InitDesktop
  /\ current_tool = "furniture"
  /\ selected_furniture_type = job.ftype
  /\ drawing = FALSE
  /\ walls = <<>>
  /\ rooms = <<>>
  /\ doors = <<>>
  /\ windows = <<>>
  /\ staircases = <<>>
  /\ furniture = add_furniture(NewModel, job.ftype, job.placed[1], job.placed[2]).furniture
  /\ canvas = add_furniture(NewModel, job.ftype, job.placed[1], job.placed[2]).canvas
  /\ nextId = 3
  /\ GrabbedFurniture(job.press[1], job.press[2]) = 1
  /\ selected_door = None
  /\ selected_furniture = 1
  /\ dragging_furniture = TRUE
  /\ start_x = job.press[1]
  /\ start_y = job.press[2]
  /\ temp = "none"
  /\ mouse = "down"
  /\ created = 1
  /\ resize_log = {}

NextMove ==
  \/ \E p \in MovePoints : on_drag(p[1], p[2])
  \/ \E p \in MovePoints : on_release(p[1], p[2])

SpecMove == InitMove /\ [][NextMove]_vars

\* the editor driven by wall and room gestures only
NextWall ==
  \/ \E tool \in {"wall", "room"} : set_tool(tool)
  \/ \E p \in WallPoints : on_click(p[1], p[2])
  \/ \E p \in WallPoints : on_drag(p[1], p[2])
  \/ \E p \in WallPoints : on_release(p[1], p[2])

SpecWall == Init /\ [][NextWall]_vars

\* the desktop front end with its scheduling: the operating system keeps
\* running every started thread, and root.mainloop() keeps running the
\* scheduled callbacks
SpecDesktopLive ==
  /\ SpecDesktop
  /\ WF_after_queue(run_callback)
  /\ \A i \in 1..MaxRuns : WF_vars(generate_3d_thread(i))

(***************************************************************************)
(* Properties                                                              *)
(***************************************************************************)
Collections == <<walls, rooms, doors, windows, staircases, furniture>>
TotalRecords == Count(Model)
SetMin(S) == CHOOSE m \in S : \A u \in S : m <= u
SetMax(S) == CHOOSE m \in S : \A u \in S : m >= u
OnGrid(v) == v % grid_size = 0

\* C1: a room gesture (room tool: press, drag, release) of size >= 20x20 adds
\* exactly 4 wall records whose union bounding box is the stored, grid-snapped
\* room rectangle, together with one room record; a smaller gesture adds no
\* entity of any kind.
C1_RoomCommit ==
  [][\A p \in Points :
       (current_tool = "room" /\ drawing /\ on_release(p[1], p[2])) =>
         IF Abs(p[1] - start_x) >= 20 /\ Abs(p[2] - start_y) >= 20
         THEN /\ Len(walls') = Len(walls) + 4
              /\ Len(rooms') = Len(rooms) + 1
              /\ <<doors, windows, staircases, furniture>>'
                   = <<doors, windows, staircases, furniture>>
              /\ LET new  == SubSeq(walls', Len(walls) + 1, Len(walls) + 4)
                     room == rooms'[Len(rooms')]
                     xs   == UNION {{new[i][1], new[i][3]} : i \in 1..4}
                     ys   == UNION {{new[i][2], new[i][4]} : i \in 1..4}
                 IN  /\ room[1] = SetMin(xs) /\ room[3] = SetMax(xs)
                     /\ room[2] = SetMin(ys) /\ room[4] = SetMax(ys)
                     /\ \A k \in 1..4 : OnGrid(room[k])
         ELSE Collections' = Collections]_vars

\* the door record owning the lowest 'door' graphic within the erase tolerance
\* of (x, y); 0 when no door graphic is hit
HitDoor(x, y) ==
  LET items == SelectSeq(find_overlapping(canvas, x, y, 10),
                         LAMBDA item : "door" \in gettags(canvas, item))
  IN  IF items = <<>> THEN 0
      ELSE FirstIdx(doors, LAMBDA d : Head(items) \in {d[4], d[5], d[6]})

\* C2: an erase click on a door (its arc or either handle) removes exactly the
\* door record owning the hit graphic and deletes exactly that door's arc and
\* two handles; every other record and graphic is left untouched, also those
\* within the erase tolerance of the click.
C2_EraseDoorOnly ==
  [][\A p \in Points :
       (current_tool = "erase" /\ HitDoor(p[1], p[2]) # 0 /\ on_click(p[1], p[2])) =>
         LET i == HitDoor(p[1], p[2])
             d == doors[i]
         IN  /\ doors' = RemoveAt(doors, i)
             /\ <<walls, rooms, windows, staircases, furniture>>'
                  = <<walls, rooms, windows, staircases, furniture>>
             /\ canvas' = deleteAll(canvas, {d[4], d[5], d[6]})]_vars

\* C3: in every reachable state every door record's width lies in [15,80],
\* whatever resize drag events have occurred.
C3_DoorWidthInRange ==
  \A i \in 1..Len(doors) : doors[i][3] >= 15 /\ doors[i][3] <= 80

\* a resize gesture in progress whose drag events have hit both clamps
C3_Witness ==
  /\ selected_door # None
  /\ \E e \in resize_log : e[2] = 80
  /\ \E e \in resize_log : e[2] = 15

\* C4: within one resize gesture, of any two drag events the one with the
\* larger drag delta (pointer x minus press x) never leaves the door with a
\* smaller stored width than the other.
C4_ResizeMonotonic ==
  \A a \in resize_log : \A b \in resize_log : a[1] > b[1] => a[2] >= b[2]

\* C5: every coordinate stored in any entity record is a multiple of the grid
\* unit: wall end points, room and staircase corners, door, window and
\* furniture anchors.
C5_AllStoredOnGrid ==
  /\ \A i \in 1..Len(walls) : \A k \in 1..4 : OnGrid(walls[i][k])
  /\ \A i \in 1..Len(rooms) : \A k \in 1..4 : OnGrid(rooms[i][k])
  /\ \A i \in 1..Len(staircases) : \A k \in 1..4 : OnGrid(staircases[i][k])
  /\ \A i \in 1..Len(doors) : \A k \in 1..2 : OnGrid(doors[i][k])
  /\ \A i \in 1..Len(windows) : \A k \in 1..2 : OnGrid(windows[i][k])
  /\ \A i \in 1..Len(furniture) : \A k \in 2..3 : OnGrid(furniture[i][k])

\* C6: both end points of every wall record, whether it comes from a wall
\* gesture or from a room gesture, have x and y multiples of the grid unit.
C6_WallsOnGrid ==
  \A i \in 1..Len(walls) : \A k \in 1..4 : OnGrid(walls[i][k])

\* a wall drawn to the off-grid point (70,70) next to the top wall of a room
\* dragged to that point
C6_Witness ==
  /\ \E i \in 1..Len(walls) : SubSeq(walls[i], 1, 4) = <<40, 40, 80, 80>>
  /\ \E i \in 1..Len(walls) : SubSeq(walls[i], 1, 4) = <<40, 40, 80, 40>>

\* C7: with the wall tool a gesture whose length (distance from press point to
\* release point) is at most 5 creates no entity, and a longer gesture creates
\* exactly one new wall record.
C7_WallThreshold ==
  [][\A p \in Points :
       (current_tool = "wall" /\ drawing /\ on_release(p[1], p[2])) =>
         LET dx == p[1] - start_x
             dy == p[2] - start_y
         IN  IF dx * dx + dy * dy > 5 * 5
             THEN /\ Len(walls') = Len(walls) + 1
                  /\ SubSeq(walls', 1, Len(walls)) = walls
                  /\ <<rooms, doors, windows, staircases, furniture>>'
                       = <<rooms, doors, windows, staircases, furniture>>
             ELSE Collections' = Collections]_vars

\* C8: with the staircase tool a release commits exactly one staircase record
\* when both dimensions of the dragged rectangle exceed 20 and no entity
\* otherwise; the record's direction is horizontal if the stored rectangle is
\* wider than high and vertical otherwise.
C8_StaircaseCommit ==
  [][\A p \in Points :
       (current_tool = "staircase" /\ drawing /\ on_release(p[1], p[2])) =>
         IF Abs(p[1] - start_x) > 20 /\ Abs(p[2] - start_y) > 20
         THEN /\ Len(staircases') = Len(staircases) + 1
              /\ SubSeq(staircases', 1, Len(staircases)) = staircases
              /\ <<walls, rooms, doors, windows, furniture>>'
                   = <<walls, rooms, doors, windows, furniture>>
              /\ LET r == staircases'[Len(staircases')]
                 IN  r[5] = IF r[3] - r[1] > r[4] - r[2] THEN "horizontal"
                            ELSE "vertical"
         ELSE Collections' = Collections]_vars

\* a square staircase (stored vertical) and a wide one (stored horizontal)
C8_Witness ==
  /\ \E i \in 1..Len(staircases) :
       /\ staircases[i][3] - staircases[i][1] = staircases[i][4] - staircases[i][2]
       /\ staircases[i][5] = "vertical"
  /\ \E i \in 1..Len(staircases) :
       /\ staircases[i][3] - staircases[i][1] > staircases[i][4] - staircases[i][2]
       /\ staircases[i][5] = "horizontal"

\* C9: a single erase click removes at most one entity record, even when
\* graphics of several entities lie within the erase tolerance.
C9_EraseAtMostOne ==
  [][\A p \in Points :
       (current_tool = "erase" /\ on_click(p[1], p[2])) =>
         TotalRecords' >= TotalRecords - 1]_vars

\* C10: after any sequence of add and erase operations every staircase record
\* still in the model has its rectangle graphic on the canvas.
C10_StaircaseGraphicKept ==
  \A i \in 1..Len(staircases) :
    \E k \in 1..Len(canvas) : canvas[k].id = staircases[i][6]

\* is there an item with this id on the canvas
OnCanvas(cv, id) == \E k \in 1..Len(cv) : cv[k].id = id

\* the two graphics add_furniture creates for a record: the main graphic, whose
\* id the record stores, and the label created right after it
FurnitureGraphics(f) == {f[7], f[7] + 1}

\* C11: an erase click that removes a furniture record deletes both of that
\* item's graphics (main graphic and label), and deletes no graphic of a
\* furniture item whose record stays in the model.
C11_EraseFurniture ==
  [][\A p \in Points :
       (current_tool = "erase" /\ on_click(p[1], p[2])) =>
         /\ \A i \in 1..Len(furniture) :
              (\A j \in 1..Len(furniture') : furniture'[j][7] # furniture[i][7]) =>
                \A id \in FurnitureGraphics(furniture[i]) : ~OnCanvas(canvas', id)
         /\ \A j \in 1..Len(furniture') :
              \A id \in FurnitureGraphics(furniture'[j]) :
                OnCanvas(canvas, id) => OnCanvas(canvas', id)]_vars

\* C12: a confirmed clear_all leaves all six collections and the canvas empty,
\* no door and no furniture item selected and no gesture in progress (neither
\* drawing nor dragging furniture); a declined clear_all changes nothing.
C12_ClearAllResets ==
  [][/\ clear_all(TRUE) =>
          /\ Collections' = <<<<>>, <<>>, <<>>, <<>>, <<>>, <<>>>>
          /\ canvas' = <<>>
          /\ selected_door' = None
          /\ selected_furniture' = None
          /\ ~drawing'
          /\ ~dragging_furniture'
     /\ clear_all(FALSE) => UNCHANGED vars]_vars

\* the furniture record being moved: grabbed, with the pointer still down
Grabbed ==
  /\ mouse = "down"
  /\ dragging_furniture
  /\ selected_furniture # None
  /\ selected_furniture <= Len(furniture)

\* every furniture record is of a type of the table, with that type's
\* footprint and rotation 0
FootprintFromTable ==
  \A i \in 1..Len(furniture) :
    /\ furniture[i][1] \in DOMAIN furniture_types
    /\ furniture[i][4] = furniture_types[furniture[i][1]].width
    /\ furniture[i][5] = furniture_types[furniture[i][1]].height
    /\ furniture[i][6] = 0

\* a drag event leaves every furniture record's type, footprint, rotation and
\* graphic id as they were
DragKeepsAllButAnchor ==
  \A p \in Points :
    on_drag(p[1], p[2]) =>
      /\ Len(furniture') = Len(furniture)
      /\ \A i \in 1..Len(furniture) :
           \A k \in {1, 4, 5, 6, 7} : furniture'[i][k] = furniture[i][k]

\* C13: in every reachable state each furniture record has a type of the
\* per-type table, the footprint (width, height) the table gives for that type
\* and rotation 0; and a drag event changes at most the anchor (x, y) of a
\* record, never its type, footprint, rotation or graphic id.
C13_FurnitureFootprint == []FootprintFromTable /\ [][DragKeepsAllButAnchor]_vars

\* two chairs are placed and one of them is grabbed for a move
C13_Witness ==
  /\ Grabbed
  /\ Len(furniture) = 2
  /\ furniture[selected_furniture][4] = 25
  /\ furniture[selected_furniture][5] = 25

\* C15: a call of save_floor_plan or of the editor's generate_3d, whatever its
\* outcome (refused for want of a wall, cancelled, succeeded, failed), leaves
\* the six collections, the canvas, the tool, the selected furniture type,
\* the door and furniture selection and the gesture flags as they were.
C15_ExportKeepsModel ==
  [][((\E file_path \in SavePaths, ok \in BOOLEAN : save_floor_plan(file_path, ok))
        \/ (\E ok \in BOOLEAN : generate_3d(ok)))
       => UNCHANGED <<Collections, canvas, current_tool,
                      selected_furniture_type, selected_door,
                      selected_furniture, drawing, dragging_furniture,
                      start_x, start_y>>]_vars

\* an export has failed while the plan holds a wall and a chair that is
\* still selected
C15_Witness ==
  /\ shown = "showerror"
  /\ Len(walls) = 1
  /\ Len(furniture) = 1
  /\ selected_furniture = 1

\* --- geometry the claims about the 3D stage are stated in ---
Dot(ax, ay, bx, by) == Plus[Times[ax, bx], Times[ay, by]]
Cross(ax, ay, bx, by) == Minus[Times[ax, by], Times[ay, bx]]
Dist2(p, q) == SumSq[Minus[p[1], q[1]], Minus[p[2], q[2]]]
Finite(a) == a[2] # 0

\* a wall whose end points differ
Usable(w) == <<w[1], w[2]>> # <<w[3], w[4]>>

\* q lies on the segment w
OnSegment(q, w) ==
  LET along == Dot(Minus[q[1], w[1]], Minus[q[2], w[2]],
                   Minus[w[3], w[1]], Minus[w[4], w[2]])
  IN  /\ Cross(Minus[w[3], w[1]], Minus[w[4], w[2]],
               Minus[q[1], w[1]], Minus[q[2], w[2]]) = Num(0)
      /\ Leq[Num(0), along]
      /\ Leq[along, Dist2(<<w[1], w[2]>>, <<w[3], w[4]>>)]

\* the squared distance from p to the segment w, by cases on where the foot
\* of the perpendicular falls
SegDist2(p, w) ==
  LET len2  == Dist2(<<w[1], w[2]>>, <<w[3], w[4]>>)
      along == Dot(Minus[p[1], w[1]], Minus[p[2], w[2]],
                   Minus[w[3], w[1]], Minus[w[4], w[2]])
      cr    == Cross(Minus[w[3], w[1]], Minus[w[4], w[2]],
                     Minus[p[1], w[1]], Minus[p[2], w[2]])
  IN  IF Leq[along, Num(0)] THEN Dist2(p, <<w[1], w[2]>>)
      ELSE IF Leq[len2, along] THEN Dist2(p, <<w[3], w[4]>>)
      ELSE Over[Times[cr, cr], len2]

\* the door and window iterations of a viewer scene
Openings ==
  IF scene.op = "open_3d_viewer" THEN scene.doors \o scene.windows ELSE <<>>

UsableWalls ==
  {k \in 1..Len(scene.normalized_walls) : Usable(scene.normalized_walls[k])}

\* C16: for each door and window anchor the opening is placed if and only if
\* some wall has two different end points; the snap point of a placed opening
\* is a finite point on one of those walls and no such wall has a point
\* strictly closer to the anchor; with no such wall nothing is emitted.
C16_GloballyClosest ==
  \A i \in 1..Len(Openings) :
    LET o == Openings[i]
    IN  IF UsableWalls = {}
        THEN ~o.placed /\ o.quad = <<>>
        ELSE /\ o.placed
             /\ Finite(o.nearest_point[1]) /\ Finite(o.nearest_point[2])
             /\ \E k \in UsableWalls : OnSegment(o.nearest_point, scene.normalized_walls[k])
             /\ \A k \in UsableWalls :
                  Leq[Dist2(o.anchor, o.nearest_point),
                      SegDist2(o.anchor, scene.normalized_walls[k])]

\* a door beyond the end of the second of two usable walls, snapped onto the
\* end point of that wall
C16_Witness ==
  /\ scene.op = "open_3d_viewer"
  /\ job.detected = << <<200, 200, 200, 600>>, <<200, 200, 600, 200>> >>
  /\ Len(scene.doors) = 1
  /\ scene.doors[1].placed
  /\ scene.doors[1].anchor = <<Frac[21, 2], Frac[15, 4]>>
  /\ scene.doors[1].nearest_point = <<Num(9), Num(3)>>


HandedOf(i) == { k \in 1..Len(handed) : handed[k].run = i }

QueuedOf(i) ==
  { k \in 1..Len(after_queue) :
      /\ after_queue[k].cb = "_create_3d_visualization"
      /\ after_queue[k].run = i }

ReceivedOf(i) == { k \in 1..Len(received) : received[k].run = i }

\* the complete result of loading, detecting and normalizing what run t
\* loaded, with the parameters the run read when it started
SnapshotOf(t) ==
  LET norm == normalize_coordinates(t.image.detected, t.image.shape) IN
  [normalized_walls |-> norm[1],
   scale |-> norm[2],
   image_shape |-> t.image.shape,
   wall_height |-> t.wall_height,
   wall_thickness |-> t.wall_thickness]

\* C14: in the desktop front end every generation run hands the main thread
\* at most one model snapshot, exactly one once the run got through loading,
\* detection and normalization, and none when the run failed or has not got
\* that far; the snapshot is the complete result of the run (normalized
\* walls, scale, image shape, wall parameters), and what waits in the main
\* loop's queue and what _create_3d_visualization receives is that snapshot,
\* unchanged, once per hand-over, whatever the other runs and the user do
\* in between.
C14_OneSnapshotPerRun ==
  \A i \in 1..Len(threads) :
    LET t == threads[i] IN
    /\ Cardinality(HandedOf(i)) <= 1
    /\ (t.pc \in {"finally", "done"} /\ ~t.failed)
         => Cardinality(HandedOf(i)) = 1
    /\ (t.failed \/ t.pc \in {"start", "load", "after"}) => HandedOf(i) = {}
    /\ Cardinality(QueuedOf(i)) + Cardinality(ReceivedOf(i))
         = Cardinality(HandedOf(i))
    /\ \A k \in HandedOf(i) :
         t.image.ok /\ handed[k].model_data = SnapshotOf(t)
    /\ \A k \in QueuedOf(i) : after_queue[k].model_data = SnapshotOf(t)
    /\ \A k \in ReceivedOf(i) : received[k].model_data = SnapshotOf(t)

\* two overlapping runs: the first failed on a file that is no image, the
\* second ran with another wall height and its snapshot has been received
C14_Witness ==
  /\ Len(threads) = 2
  /\ threads[1].pc = "done" /\ threads[1].failed
  /\ threads[2].pc = "done" /\ ~threads[2].failed
  /\ threads[2].wall_height = Frac[5, 2]
  /\ threads[1].wall_height = Num(3)
  /\ after_queue = <<>>
  /\ Len(received) = 1
  /\ received[1].run = 2
  /\ received[1].model_data.wall_height = Frac[5, 2]
  /\ received[1].model_data.normalized_walls
       = << <<Frac[3, 4], Frac[3, 4], Frac[57, 4], Frac[3, 4]>>,
            <<Num(3), Num(3), Num(3), Num(9)>> >>


\* the signed distance of the point (v[1], v[2]) from the centre line of the
\* wall an opening was snapped to, measured along the wall normal
NormalDistance(o, v) ==
  Dot(Minus[v[1], o.nearest_point[1]], Minus[v[2], o.nearest_point[2]],
      o.wall_normal[1], o.wall_normal[2])

\* C17: every placed door and window opening sits flush on the outer face of
\* the wall it was snapped to: whatever the wall's direction, each of the four
\* vertices of the opening lies at distance 0.1 (half the wall thickness) from
\* the wall's centre line on the side the wall normal points to.
C17_FlushOnWall ==
  \A i \in 1..Len(Openings) :
    LET o == Openings[i]
    IN  o.placed =>
          /\ Len(o.quad) = 4
          /\ \A j \in 1..4 : NormalDistance(o, o.quad[j]) = Frac[1, 10]


\* where the foot of the perpendicular from p falls along the wall w, times
\* the length of w
Along(p, w) ==
  Dot(Minus[p[1], w[1]], Minus[p[2], w[2]],
      Minus[w[3], w[1]], Minus[w[4], w[2]])

\* C18: for every anchor P and every wall AB with two different end points
\* the projection computed by find_nearest_wall_point has its parametric
\* position within [0, len(AB)], so the point it yields lies on the segment
\* AB and not on the line beyond an end point, and it is P itself when P
\* already lies on AB.
C18_ProjectionOnSegment ==
  \A i \in 1..Len(Openings) :
    LET o == Openings[i]
    IN  \A k \in 1..Len(o.tried) :
          LET w == scene.normalized_walls[k]
              p == o.tried[k]
          IN  Usable(w) =>
                /\ Times[p.wall_len, p.wall_len]
                     = Dist2(<<w[1], w[2]>>, <<w[3], w[4]>>)
                /\ Leq[Num(0), p.t] /\ Leq[p.t, p.wall_len]
                /\ OnSegment(p.nearest_point, w)
                /\ OnSegment(o.anchor, w) => p.nearest_point = o.anchor

\* one scene with an anchor lying inside a wall, projected onto itself, and an
\* anchor whose perpendicular foot falls before the first end of a wall,
\* projected onto that end
C18_Witness ==
  /\ \E i \in 1..Len(Openings) : \E k \in 1..Len(Openings[i].tried) :
       LET o == Openings[i]
           w == scene.normalized_walls[k]
       IN  /\ Usable(w)
           /\ OnSegment(o.anchor, w)
           /\ Lt[Num(0), o.tried[k].t] /\ Lt[o.tried[k].t, o.tried[k].wall_len]
           /\ o.tried[k].nearest_point = o.anchor
  /\ \E i \in 1..Len(Openings) : \E k \in 1..Len(Openings[i].tried) :
       LET o == Openings[i]
           w == scene.normalized_walls[k]
       IN  /\ Usable(w)
           /\ Lt[Along(o.anchor, w), Num(0)]
           /\ o.tried[k].t = Num(0)
           /\ o.tried[k].nearest_point = <<w[1], w[2]>>


\* the height and thickness the scene's walls were extruded with
SceneHeight == IF scene.op = "open_3d_viewer" THEN Num(3) ELSE job.wall_height
SceneThickness ==
  IF scene.op = "open_3d_viewer" THEN Frac[2, 10] ELSE job.wall_thickness

SceneWalls ==
  IF scene.op = "none" THEN {} ELSE 1..Len(scene.normalized_walls)

VerticesOf(face) == { face[j] : j \in 1..Len(face) }

\* the vertex set G is the vertex set F moved by one vector
Translated(F, G) ==
  \E a \in F, b \in G :
    G = { <<Plus[v[1], Minus[b[1], a[1]]], Plus[v[2], Minus[b[2], a[2]]],
            Plus[v[3], Minus[b[3], a[3]]]>> : v \in F }

\* v lies at distance thickness/2 from the end point e, at right angles to
\* the wall w
OffsetFromEnd(v, e, w, thickness) ==
  /\ Dist2(<<v[1], v[2]>>, e)
       = Times[Over[thickness, Num(2)], Over[thickness, Num(2)]]
  /\ Dot(Minus[v[1], e[1]], Minus[v[2], e[2]],
         Minus[w[3], w[1]], Minus[w[4], w[2]]) = Num(0)

\* C19: create_3d_wall yields exactly six faces of four vertices for every
\* segment with two different end points, built from eight vertices, four at
\* z = 0 and four at z = height, which are the two end points moved by
\* thickness/2 to either side at right angles to the segment, and the three
\* pairs of opposing faces are congruent (one is the other moved by a
\* vector); for a segment of length zero it yields the empty list of faces.
C19_WallBox ==
  \A k \in SceneWalls :
    LET w == scene.normalized_walls[k]
        faces == scene.wall_faces[k]
        V == UNION { VerticesOf(faces[f]) : f \in 1..Len(faces) }
        ends == { <<w[1], w[2]>>, <<w[3], w[4]>> }
    IN  IF ~Usable(w) THEN faces = <<>>
        ELSE /\ Len(faces) = 6
             /\ \A f \in 1..6 : Len(faces[f]) = 4
                                 /\ Cardinality(VerticesOf(faces[f])) = 4
             /\ Cardinality(V) = 8
             /\ \A z \in {Num(0), SceneHeight} : \A e \in ends :
                  LET side == { v \in V : v[3] = z
                                  /\ OffsetFromEnd(v, e, w, SceneThickness) }
                  IN  /\ Cardinality(side) = 2
                      /\ \A u \in side : \E v \in side :
                           /\ Plus[u[1], v[1]] = Times[Num(2), e[1]]
                           /\ Plus[u[2], v[2]] = Times[Num(2), e[2]]
             /\ \A f \in {1, 3, 5} :
                  /\ VerticesOf(faces[f]) \cap VerticesOf(faces[f + 1]) = {}
                  /\ Translated(VerticesOf(faces[f]), VerticesOf(faces[f + 1]))

\* a command line run with an oblique wall extruded to 2.5 m at thickness
\* 0.5 m next to a segment of length zero
C19_Witness ==
  /\ scene.op = "generate_3d_model"
  /\ job.detected = << <<200, 200, 500, 600>>, <<400, 400, 400, 400>> >>
  /\ job.image_shape = <<800, 1000>>
  /\ job.wall_height = Frac[5, 2]
  /\ job.wall_thickness = Frac[1, 2]
  /\ Len(scene.wall_faces[1]) = 6
  /\ scene.wall_faces[1][1][1] = <<Frac[14, 5], Frac[63, 20], Num(0)>>
  /\ scene.wall_faces[2] = <<>>


\* a pixel value at the scale s
Scaled(v, s) == Times[Num(v), s]

\* C20: one run of a pipeline uses the single scale 15 / max(width, height)
\* of the loaded image for everything it places: the normalized walls and the
\* floor quad, and in the editor's viewer also the door and window anchors,
\* the staircase rectangles and the furniture anchors (the viewer's own scale
\* equals the one normalize_coordinates returned).  For a 1000 x 800 image
\* the scale is 0.015, the wall (50,50)-(950,50) becomes
\* (0.75,0.75)-(14.25,0.75) and the floor spans [0,15] x [0,12].
C20_OneScale ==
  scene.op # "none" =>
    LET img_height == job.image_shape[1]
        img_width == job.image_shape[2]
        s == Over[Num(15), Num(Max(img_width, img_height))]
    IN  /\ scene.scale = s
        /\ Len(scene.normalized_walls) = Len(job.detected)
        /\ \A k \in 1..Len(job.detected) :
             scene.normalized_walls[k]
               = [j \in 1..4 |-> Scaled(job.detected[k][j], s)]
        /\ scene.floor
             = << <<Num(0), Num(0), Num(0)>>,
                  <<Scaled(img_width, s), Num(0), Num(0)>>,
                  <<Scaled(img_width, s), Scaled(img_height, s), Num(0)>>,
                  <<Num(0), Scaled(img_height, s), Num(0)>> >>
        /\ scene.op = "open_3d_viewer" =>
             /\ scene.img_scale = s
             /\ \A k \in 1..Len(job.doors) :
                  scene.doors[k].anchor
                    = <<Scaled(job.doors[k][1], s), Scaled(job.doors[k][2], s)>>
             /\ \A k \in 1..Len(job.windows) :
                  scene.windows[k].anchor
                    = <<Scaled(job.windows[k][1], s),
                        Scaled(job.windows[k][2], s)>>
             /\ \A k \in 1..Len(job.staircases) :
                  scene.staircases[k]
                    = [j \in 1..4 |-> Scaled(job.staircases[k][j], s)]
             /\ \A k \in 1..Len(job.furniture) :
                  scene.furniture[k]
                    = <<Scaled(job.furniture[k][2], s),
                        Scaled(job.furniture[k][3], s)>>
        /\ job.image_shape = <<800, 1000>> =>
             /\ scene.scale = Frac[15, 1000]
             /\ scene.floor[3] = <<Num(15), Num(12), Num(0)>>
             /\ \A k \in 1..Len(job.detected) :
                  job.detected[k] = <<50, 50, 950, 50>> =>
                    scene.normalized_walls[k]
                      = <<Frac[75, 100], Frac[75, 100],
                          Frac[1425, 100], Frac[75, 100]>>

\* the command line pipeline run on the 1000 x 800 image with the wall
\* (50,50)-(950,50)
C20_Witness ==
  /\ scene.op = "generate_3d_model"
  /\ job.image_shape = <<800, 1000>>
  /\ job.detected = << <<50, 50, 950, 50>> >>
  /\ scene.scale = Frac[3, 200]
  /\ scene.normalized_walls
       = << <<Frac[3, 4], Frac[3, 4], Frac[57, 4], Frac[3, 4]>> >>
  /\ scene.floor[3] = <<Num(15), Num(12), Num(0)>>


\* C21: in the editor the number of steps of a staircase is
\* max(3, min(10, floor(max(width, height) / 15))) on the canvas and in the
\* saved image alike: it lies in [3, 10], it is 10 for a staircase 150 units
\* long and 3 for one 45 units long, and for every staircase a gesture commits
\* the saved image draws as many step lines as the canvas shows.
C21_StepCount ==
  /\ scene.op = "num_steps" =>
       LET len == Max(job.width, job.height)
           n == IF len < 45 THEN 3 ELSE IF len >= 150 THEN 10 ELSE len \div 15
       IN  /\ scene.canvas = n
           /\ scene.raster = n
           /\ scene.canvas \in 3..10
           /\ len = 150 => scene.canvas = 10
           /\ len = 45 => scene.canvas = 3
  /\ scene.op = "add_staircase" =>
       /\ scene.canvas_lines = scene.raster_lines
       /\ scene.canvas_lines + 1 \in 3..10
       /\ scene.canvas_lines + 1
            = num_steps(Abs(scene.record[3] - scene.record[1]),
                        Abs(scene.record[4] - scene.record[2]))

\* a staircase drawn over 300 pixels: nine step lines on the canvas and in the
\* saved image
C21_Witness ==
  /\ scene.op = "add_staircase"
  /\ job.from = <<100, 200>> /\ job.to = <<400, 70>>
  /\ scene.record = <<100, 80, 400, 200, "horizontal", 1>>
  /\ scene.canvas_lines = 9
  /\ scene.raster_lines = 9
  /\ scene.raster_at[1] = Num(130)


\* the step count n of a staircase of extents w and d (metres) is
\* floor(max(w, d) / 0.3) limited to 3 .. 15
StepCountFor(n, m) ==
  IF Lt[m, Frac[9, 10]] THEN n = 3
  ELSE IF Leq[Frac[9, 2], m] THEN n = 15
  ELSE /\ Leq[Times[Num(n), Frac[3, 10]], m]
       /\ Lt[m, Times[Num(n + 1), Frac[3, 10]]]

\* the n boxes are the n equal slices of lo .. hi in ascending order
SlicesTile(spans, lo, hi) ==
  /\ spans[1][1] = lo
  /\ spans[Len(spans)][2] = hi
  /\ \A i \in 1..Len(spans) :
       /\ Lt[spans[i][1], spans[i][2]]
       /\ Minus[spans[i][2], spans[i][1]] = Over[Minus[hi, lo], Num(Len(spans))]
       /\ i < Len(spans) => spans[i][2] = spans[i + 1][1]

StairSteppedRight(steps, rect, direction) ==
  /\ StepCountFor(Len(steps), MaxQ[Minus[rect[3], rect[1]], Minus[rect[4], rect[2]]])
  /\ IF direction = "horizontal"
     THEN /\ SlicesTile([i \in 1..Len(steps) |-> steps[i].x], rect[1], rect[3])
          /\ \A i \in 1..Len(steps) : steps[i].y = <<rect[2], rect[4]>>
     ELSE /\ SlicesTile([i \in 1..Len(steps) |-> steps[i].y], rect[2], rect[4])
          /\ \A i \in 1..Len(steps) : steps[i].x = <<rect[1], rect[3]>>
  /\ \A i \in 1..Len(steps) :
       /\ steps[i].z[1] = Frac[(i - 1) * 3, Len(steps)]
       /\ steps[i].z[2] = Frac[i * 3, Len(steps)]
       /\ i < Len(steps) => Lt[steps[i].z[1], steps[i + 1].z[1]]
  /\ steps[Len(steps)].z[2] = Num(3)

C23_SnapIdempotent ==
  [][(scene.op = "snap" /\ scene'.op = "snap") =>
       /\ scene'.stored = scene.stored
       /\ scene'.stored = Snap(job.x)]_vars

\* the coordinate 30, half way between two grid lines, was stored as 40 and
\* committed twice more
C23_Witness ==
  /\ job.kind = "coordinate"
  /\ job.x = 30
  /\ scene.op = "snap"
  /\ scene.stored = 40
  /\ scene.commits = 3


\* C24: every pointer release ends the gesture in progress: after the
\* release the editor is idle, drawing and dragging_furniture are False and
\* selected_furniture and selected_door are None.
C24_ReleaseEndsGesture ==
  [][(mouse = "down" /\ mouse' = "up") =>
       /\ drawing' = FALSE
       /\ dragging_furniture' = FALSE
       /\ selected_furniture' = None
       /\ selected_door' = None]_vars


\* C25: in every reachable state selected_furniture is None or an index of
\* the furniture list and selected_door is None or an index of the doors
\* list, also after erase and clear_all.
C25_SelectionValid ==
  /\ selected_furniture = None \/ selected_furniture \in 1..Len(furniture)
  /\ selected_door = None \/ selected_door \in 1..Len(doors)


\* the drag event to p happens and leaves the grabbed item at the snapped
\* sum of its anchor at the press and the pointer's way from the press to p
FollowsTo(p) ==
  /\ on_drag(p[1], p[2])
  /\ furniture'[1][2] = Snap(Snap(job.placed[1]) + (p[1] - job.press[1]))
  /\ furniture'[1][3] = Snap(Snap(job.placed[2]) + (p[2] - job.press[2]))

\* C28: a furniture move follows the pointer: at any moment of a move
\* gesture, after any number of drag events, a drag event to p leaves the
\* item's stored anchor at snap(anchor at press + p - press point).
C28_MoveFollowsPointer ==
  (job.kind = "move" /\ mouse = "down") =>
    \A p \in MovePoints : ENABLED FollowsTo(p)


\* C29: every wall record committed by the editor is non-degenerate: after
\* any sequence of wall and room gestures no wall record has the same
\* (grid-snapped) start and end point.
C29_WallsNonDegenerate ==
  \A i \in 1..Len(walls) :
    <<walls[i][1], walls[i][2]>> # <<walls[i][3], walls[i][4]>>


\* C30: for every door the editor can hold (authored width 15 .. 80 pixels)
\* on the 1000 x 700 canvas the 3D stage computes the door width
\* max(0.6, min(1.2, width * (15 / 1000) * 0.03)) as exactly 0.6 m, the same
\* for every authored width, and the door's quad is 0.6 m wide.
C30_DoorWidthConstant ==
  (scene.op = "open_3d_viewer" /\ job.img_width = 1000 /\ job.img_height = 700) =>
    \A k \in 1..Len(scene.doors) :
      (job.doors[k][3] \in 15..80 /\ scene.doors[k].placed) =>
        /\ scene.doors[k].width = Frac[6, 10]
        /\ Leq[Frac[6, 10], scene.doors[k].width]
        /\ Leq[scene.doors[k].width, Frac[12, 10]]
        /\ Minus[scene.doors[k].quad[2][1], scene.doors[k].quad[1][1]] = Frac[6, 10]

\* a door resized to the largest width, 80 pixels, has become a 0.6 m
\* opening from x = 5.7 m to x = 6.3 m
C30_Witness ==
  /\ scene.op = "open_3d_viewer"
  /\ job.doors = << <<400, 200, 80, 1, 2, 3, 0>> >>
  /\ scene.doors[1].placed
  /\ scene.doors[1].width = Frac[6, 10]
  /\ scene.doors[1].quad[1][1] = Frac[57, 10]
  /\ scene.doors[1].quad[2][1] = Frac[63, 10]


\* the runs whose thread has not finished or whose callbacks still wait in
\* the main loop's queue
InFlight ==
  { i \in 1..Len(threads) :
      \/ threads[i].pc # "done"
      \/ \E k \in 1..Len(after_queue) : after_queue[k].run = i }

\* C26: in the desktop front end at most one generation run is in flight at
\* any time: while a run is in flight the generate button stays disabled, so
\* no second run starts, and floor_plan_path and converter are not changed
\* under a running generation.
C26_OneRunInFlight ==
  /\ [](Cardinality(InFlight) <= 1)
  /\ [](InFlight # {} => btn_generate = "disabled")
  /\ [][InFlight # {} => UNCHANGED floor_plan_path]_vars


\* the enable callback of run i has been processed
Reenabled(i) ==
  /\ i <= Len(threads)
  /\ threads[i].pc = "done"
  /\ \A k \in 1..Len(after_queue) :
       ~(after_queue[k].run = i /\ after_queue[k].cb = "enable")

\* the main loop processes an enable callback
ProcessesEnable ==
  /\ mainloop
  /\ Head(after_queue).cb = "enable"

\* C27: every generation run of the desktop front end, succeeding or
\* failing, eventually has its enable callback processed, which sets the
\* generate button to normal; for a run that succeeded the visualization
\* callback has been processed by then.
C27_RunReenables ==
  /\ \A i \in 1..MaxRuns : (i <= Len(threads)) ~> Reenabled(i)
  /\ [][ProcessesEnable => btn_generate' = "normal"]_vars
  /\ [](\A i \in 1..Len(threads) :
          (Reenabled(i) /\ ~threads[i].failed) => ReceivedOf(i) # {})

\* a run that loaded its image and one that failed have both finished and
\* had their enable callbacks processed, the button is normal
C27_Witness ==
  /\ Len(threads) = 2
  /\ Reenabled(1)
  /\ Reenabled(2)
  /\ \E i \in 1..2 : threads[i].failed
  /\ \E i \in 1..2 : ~threads[i].failed /\ ReceivedOf(i) # {}
  /\ after_queue = <<>>
  /\ btn_generate = "normal"

====
